---- MODULE Spec2Model ----
(***************************************************************************)
(* Verification model of the LINE webhook bot (daily_hacker_news_line_     *)
(* chatbot): the signature verifier (src/src/api/line.rs), the retrying    *)
(* call executor (src/src/utils.rs) and the webhook dispatch pipeline      *)
(* (src/src/handlers/webhook.rs, src/src/handlers/stories.rs) that         *)
(* src/src/main.rs routes POST /webhook to.                                *)
(*                                                                         *)
(* Specifications:                                                         *)
(*   SpecSig    validate_signature / generate_signature on byte strings    *)
(*   SpecRetry  one call of with_retry                                     *)
(*   SpecPush   one call of push_story_summaries                           *)
(*   Spec       one webhook request: handler + detached background task    *)
(*   SpecAck    Spec with weak fairness of the handler's own steps only    *)
(*   SpecLive   Spec with weak fairness of the task's steps                *)
(*   SpecDrop   SpecLive with a caller that may go away                    *)
(*   SpecTwo    two background tasks interleaved on one runtime            *)
(*   SpecStall  a request served while an earlier task never resumes       *)
(*   SpecStories one call of rss::get_latest_stories on a parsed feed      *)
(***************************************************************************)
EXTENDS Integers, Sequences, FiniteSets, TLC

VARIABLES
    sigCase,     \* SpecSig: the verification case tried and its result
    rpc,         \* with_retry: position in the function
    invocations, \* with_retry: outcome of every invocation of `operation`, in order
    slept,       \* with_retry: backoff delays slept, in order (milliseconds)
    opScript,    \* with_retry: outcome kind of each invocation of `operation`
    spawnErr,    \* with_retry: index of the invocation whose Err Retry::spawn holds
    retResult,   \* with_retry: the value with_retry returned
    req,         \* webhook request: signature header, body bytes, parsed body
    hpc,         \* parse_request_handler: position
    response,    \* HTTP response sent to the webhook caller
    tpc,         \* background task (process_request): position
    env,         \* locals of the background task
    calls,       \* outbound calls made so far, in order
    logs,        \* log records emitted so far, in order
    taskResult,  \* ApiResult of the stories function the task called, if any
    parked,      \* SpecTwo: the task that is not running, and the shared statics
    feedCase     \* SpecStories: the feed given to get_latest_stories and its result

vars == <<sigCase, rpc, opScript, invocations, slept, spawnErr, retResult,
          req, hpc, response, tpc, env, calls, logs, taskResult, parked,
          feedCase>>

sigVars == <<sigCase>>

retryVars == <<rpc, opScript, invocations, slept, spawnErr, retResult>>

pipeVars == <<req, hpc, response, tpc, env, calls, logs, taskResult>>

peerVars == <<parked>>

feedVars == <<feedCase>>

(***************************************************************************)
(* ApiResult<T> (src/src/models.rs): Ok(value) or Err(ApiError).           *)
(***************************************************************************)
Ok(v) == [ok |-> TRUE, err |-> "", val |-> v]

Err(kind, msg) == [ok |-> FALSE, err |-> kind, val |-> msg]

(***************************************************************************)
(* Bounds of the byte-level signature model.                               *)
(***************************************************************************)
MaxByte == 2        \* body bytes range over 0..MaxByte

MaxBodyLen == 2     \* bodies of 0..MaxBodyLen bytes

NSecrets == 2       \* channel secrets 1..NSecrets

MacLen == 2         \* bytes of a MAC tag in the model (SHA-256 gives 32)

RECURSIVE Pow(_, _)
Pow(b, e) == IF e = 0 THEN 1 ELSE b * Pow(b, e - 1)

(***************************************************************************)
(* base64 STANDARD engine (api/line.rs:22, line_helper.rs:52).  A symbol   *)
(* is the 6-bit value of an alphabet character (0..63), the padding        *)
(* character '=' (B64Pad) or any byte outside the alphabet (B64Bad).       *)
(***************************************************************************)
B64Pad == 64

B64Bad == 65

B64Symbols == 0..B64Bad

RECURSIVE B64Encode(_)
B64Encode(bs) ==
    IF Len(bs) = 0 THEN <<>>
    ELSE IF Len(bs) = 1 THEN
        <<bs[1] \div 4, (bs[1] % 4) * 16, B64Pad, B64Pad>>
    ELSE IF Len(bs) = 2 THEN
        LET n == bs[1] * 256 + bs[2]
        IN  <<n \div 1024, (n \div 16) % 64, (n % 16) * 4, B64Pad>>
    ELSE
        LET n == bs[1] * 65536 + bs[2] * 256 + bs[3]
        IN  <<n \div 262144, (n \div 4096) % 64, (n \div 64) % 64, n % 64>>
                \o B64Encode(SubSeq(bs, 4, Len(bs)))

\* The last quantum of a padded input: 4, 3 or 2 data symbols, then padding.
\* `strict` is the engine's default: non-zero trailing bits are an error.
B64DecodeLast(q, strict) ==
    IF q[1] >= 64 \/ q[2] >= 64 THEN [ok |-> FALSE, bytes |-> <<>>]
    ELSE IF q[3] = B64Pad THEN
        IF q[4] # B64Pad \/ (strict /\ q[2] % 16 # 0)
        THEN [ok |-> FALSE, bytes |-> <<>>]
        ELSE [ok |-> TRUE, bytes |-> <<q[1] * 4 + q[2] \div 16>>]
    ELSE IF q[3] >= 64 THEN [ok |-> FALSE, bytes |-> <<>>]
    ELSE IF q[4] = B64Pad THEN
        IF strict /\ q[3] % 4 # 0
        THEN [ok |-> FALSE, bytes |-> <<>>]
        ELSE LET n == q[1] * 4096 + q[2] * 64 + q[3]
             IN  [ok |-> TRUE, bytes |-> <<n \div 1024, (n \div 4) % 256>>]
    ELSE IF q[4] >= 64 THEN [ok |-> FALSE, bytes |-> <<>>]
    ELSE LET n == q[1] * 262144 + q[2] * 4096 + q[3] * 64 + q[4]
         IN  [ok |-> TRUE,
              bytes |-> <<n \div 65536, (n \div 256) % 256, n % 256>>]

RECURSIVE B64DecodeWith(_, _)
B64DecodeWith(s, strict) ==
    IF Len(s) = 0 THEN [ok |-> TRUE, bytes |-> <<>>]
    ELSE IF Len(s) % 4 # 0 THEN [ok |-> FALSE, bytes |-> <<>>]
    ELSE IF Len(s) = 4 THEN B64DecodeLast(s, strict)
    ELSE IF \E i \in 1..4 : s[i] >= 64 THEN [ok |-> FALSE, bytes |-> <<>>]
    ELSE LET n    == s[1] * 262144 + s[2] * 4096 + s[3] * 64 + s[4]
             rest == B64DecodeWith(SubSeq(s, 5, Len(s)), strict)
         IN  IF rest.ok
             THEN [ok |-> TRUE,
                   bytes |-> <<n \div 65536, (n \div 256) % 256, n % 256>>
                                \o rest.bytes]
             ELSE rest

\* A decoder that accepts non-canonical trailing bits (mutant of B64Decode).
B64Decode_AllowTrailingBits(s) == B64DecodeWith(s, FALSE)

\* general_purpose::STANDARD.decode
B64Decode(s) == B64DecodeWith(s, TRUE)

(***************************************************************************)
(* HMAC-SHA256 is modelled as a perfect MAC: a deterministic function of   *)
(* (key, message) that is injective on the bounded domain and spreads its  *)
(* value over all MacLen bytes.  Collisions of the real primitive are      *)
(* outside the model.                                                      *)
(***************************************************************************)
RECURSIVE BodyCode(_)
BodyCode(body) ==
    IF body = <<>> THEN 0
    ELSE (Head(body) + 1) + (MaxByte + 2) * BodyCode(Tail(body))

HmacSha256(secret, body) ==
    LET idx == secret * Pow(MaxByte + 2, MaxBodyLen + 1) + BodyCode(body)
        m   == (idx * 40503 + 12345) % Pow(256, MacLen)
    IN  [i \in 1..MacLen |-> (m \div Pow(256, MacLen - i)) % 256]

\* Mac::verify_slice: equal length and equal bytes.
VerifySlice(mac, tag) ==
    /\ Len(tag) = Len(mac)
    /\ \A i \in 1..Len(mac) : mac[i] = tag[i]

\* line_helper.rs generate_signature: base64 of the MAC of the body.
GenerateSignature(secret, body) == B64Encode(HmacSha256(secret, body))

\* api/line.rs validate_signature, for the configured channel secret `secret`.
ValidateSignature(secret, signature, body) ==
    LET mac == HmacSha256(secret, body)
        dec == B64Decode(signature)
    IN  IF ~dec.ok THEN Err("ValidationError", "Invalid signature")
        ELSE IF VerifySlice(mac, dec.bytes) THEN Ok("unit")
        ELSE Err("ValidationError", "Invalid signature")

\* A comparison that stops at the first differing byte, as `==` on strings or
\* slices does (mutant of VerifySliceSteps).
VerifySliceSteps_ShortCircuit(mac, tag) ==
    IF Len(tag) # Len(mac) THEN 0
    ELSE LET diff == {i \in 1..Len(mac) : mac[i] # tag[i]}
         IN  IF diff = {} THEN Len(mac)
             ELSE CHOOSE i \in diff : \A j \in diff : i <= j

\* Mac::verify_slice: the number of byte comparisons it makes.  The length
\* test comes first; tags of the MAC's length are compared over all bytes,
\* the differences being accumulated and tested once at the end.
VerifySliceSteps(mac, tag) ==
    IF Len(tag) # Len(mac) THEN 0 ELSE Len(mac)

\* api/line.rs validate_signature: the byte comparisons one call makes; none
\* when the signature does not decode.
ValidateSignatureSteps(secret, signature, body) ==
    LET mac == HmacSha256(secret, body)
        dec == B64Decode(signature)
    IN  IF ~dec.ok THEN 0 ELSE VerifySliceSteps(mac, dec.bytes)

RECURSIVE SeqsUpTo(_, _)
SeqsUpTo(S, n) ==
    IF n = 0 THEN {<<>>}
    ELSE LET shorter == SeqsUpTo(S, n - 1)
         IN  shorter \cup {Append(q, x) : q \in shorter, x \in S}

Bodies == SeqsUpTo(0..MaxByte, MaxBodyLen)

Secrets == 1..NSecrets

SigIdle == [kind |-> "idle", secret |-> 0, body |-> <<>>,
            vbody |-> <<>>, vsig |-> <<>>, result |-> Ok("unit"), compared |-> 0]

(***************************************************************************)
(* Retrying call executor: utils.rs create_retry_strategy / with_retry,    *)
(* over tokio_retry's ExponentialBackoff and Retry::spawn.                 *)
(***************************************************************************)
BaseDelayMs == 100      \* ExponentialBackoff::from_millis(100)

MaxDelayMs == 5000      \* .max_delay(Duration::from_secs(5))

RetryTake == 3          \* .take(3)

ScriptLen == 5          \* invocations of `operation` whose outcome is scripted

\* ExponentialBackoff::next, n times from `current` (factor 1): a delay above
\* max_delay is replaced by max_delay and leaves `current` as it is.
RECURSIVE BackoffDelays(_, _)
BackoffDelays(current, n) ==
    IF n = 0 THEN <<>>
    ELSE IF current > MaxDelayMs
         THEN <<MaxDelayMs>> \o BackoffDelays(current, n - 1)
         ELSE <<current>> \o BackoffDelays(current * BaseDelayMs, n - 1)

\* A strategy that allows no retry at all (mutant of CreateRetryStrategy).
CreateRetryStrategy_Empty == <<>>

\* create_retry_strategy(): the delays the iterator yields, in order.
CreateRetryStrategy == BackoffDelays(BaseDelayMs, RetryTake)

ErrorKinds == {"NetworkError", "ValidationError", "ExternalServiceError"}

OutcomeKinds == {"Ok"} \cup ErrorKinds

\* The closure given to Retry::spawn maps the error to a label (utils.rs:93-96).
MapErr(kind) == IF kind = "NetworkError" THEN "retryable" ELSE "non-retryable"

\* Retry::spawn carries no retry condition: every Err is retried while the
\* strategy yields a delay; the label is not read.
ShouldRetry(label) == TRUE

\* Outcome of the k-th invocation of the scripted operation.
Invoke(script, k) ==
    LET kind == script[IF k <= Len(script) THEN k ELSE Len(script)]
    IN  IF kind = "Ok" THEN Ok(k) ELSE Err(kind, k)

Scripts == [1..ScriptLen -> OutcomeKinds]

NoRetryResult == [ok |-> FALSE, err |-> "none", val |-> 0]

NoResult == [ok |-> FALSE, err |-> "none", val |-> "none"]

InitRetryIdle ==
    /\ rpc = "idle"
    /\ opScript = <<>>
    /\ invocations = <<>>
    /\ slept = <<>>
    /\ spawnErr = 0
    /\ retResult = NoRetryResult

\* One attempt inside Retry::spawn (utils.rs:92-98).
RetryAttempt ==
    /\ rpc = "attempt"
    /\ LET k == Len(invocations) + 1
           r == Invoke(opScript, k)
       IN  /\ invocations' = Append(invocations, r)
           /\ IF r.ok
              THEN /\ rpc' = "done"
                   /\ retResult' = r
                   /\ spawnErr' = spawnErr
              ELSE /\ spawnErr' = k
                   /\ retResult' = retResult
                   /\ IF ShouldRetry(MapErr(r.err))
                         /\ Len(slept) < Len(CreateRetryStrategy)
                      THEN rpc' = "sleep"
                      ELSE rpc' = "reinvoke"
    /\ UNCHANGED <<opScript, slept, sigVars, pipeVars, peerVars, feedVars>>

\* The backoff sleep between two attempts.
RetrySleep ==
    /\ rpc = "sleep"
    /\ slept' = Append(slept, CreateRetryStrategy[Len(slept) + 1])
    /\ rpc' = "attempt"
    /\ UNCHANGED <<opScript, invocations, spawnErr, retResult, sigVars, pipeVars, peerVars, feedVars>>

\* utils.rs:100-103: on Err the operation is awaited again and its result returned.
RetryReinvoke ==
    /\ rpc = "reinvoke"
    /\ LET r == Invoke(opScript, Len(invocations) + 1)
       IN  /\ invocations' = Append(invocations, r)
           /\ retResult' = r
    /\ rpc' = "done"
    /\ UNCHANGED <<opScript, slept, spawnErr, sigVars, pipeVars, peerVars, feedVars>>

(***************************************************************************)
(* Webhook request data (models.rs:94-123).  Null stands for an absent     *)
(* JSON member / Option::None.                                             *)
(***************************************************************************)
Null == "<none>"

ChannelSecret == 1      \* CONFIG_CACHE.channel_secret

NStories == 2           \* a feed holds at most NStories stories

MaxIdxLen == 5          \* index lists of push_story_summaries: 0..MaxIdxLen entries

MaxIndexes == 5         \* "maximum array size of 5" of the push_summary tool

\* One entry of "events": `source` is "absent" or "ok" (an object with its
\* required "type"), `message` is "absent", "no_type" (an object without its
\* required "type") or "ok".
Event(type, replyToken, source, userId, message, text) ==
    [type |-> type, replyToken |-> replyToken, source |-> source,
     userId |-> userId, message |-> message, text |-> text]

MessageEvent == Event("message", "R1", "ok", "U1", "ok", "today")

\* The request bodies tried.  `json` is whether the bytes are JSON at all,
\* `hasEvents` whether the document has an "events" array.
WebhookDocs ==
    << [json |-> FALSE, hasEvents |-> FALSE, events |-> <<>>],
       [json |-> TRUE, hasEvents |-> TRUE, events |-> <<MessageEvent>>],
       [json |-> TRUE, hasEvents |-> TRUE,
        events |-> <<Event("message", "R1", "absent", Null, "no_type", "today")>>],
       [json |-> TRUE, hasEvents |-> TRUE,
        events |-> <<Event("message", Null, "ok", "U1", "ok", "today")>>],
       [json |-> TRUE, hasEvents |-> TRUE,
        events |-> <<Event("message", "R1", "ok", Null, "ok", "today")>>],
       [json |-> TRUE, hasEvents |-> TRUE,
        events |-> <<Event("follow", "R1", "ok", "U1", "absent", Null)>>],
       [json |-> TRUE, hasEvents |-> TRUE,
        events |-> <<Event("message", "R1", "ok", "U1", "ok", "")>>],
       [json |-> TRUE, hasEvents |-> TRUE, events |-> <<>>],
       [json |-> TRUE, hasEvents |-> TRUE,
        events |-> <<Event("follow", "R1", "ok", "U1", "absent", Null), MessageEvent>>],
       [json |-> TRUE, hasEvents |-> TRUE,
        events |-> <<Event("message", "R1", "ok", "U1", "absent", Null)>>],
       [json |-> TRUE, hasEvents |-> TRUE,
        events |-> <<Event("message", "R1", "ok", "U1", "ok", Null)>>],
       [json |-> TRUE, hasEvents |-> TRUE,
        events |-> <<MessageEvent, Event("message", "R2", "ok", "U2", "ok", "hello bot")>>] >>

\* The bytes of the k-th document: distinct documents have distinct bytes.
DocBytes(k) ==
    IF k <= (MaxByte + 1) * (MaxByte + 1)
    THEN <<(k - 1) % (MaxByte + 1), (k - 1) \div (MaxByte + 1)>>
    ELSE <<(k - 1) % (MaxByte + 1)>>

\* A signature header that is not base64 (its first character is outside the alphabet).
Undecodable(sig) == [sig EXCEPT ![1] = B64Bad]

SignaturesTried(bytes) ==
    { GenerateSignature(ChannelSecret, bytes),
      GenerateSignature(ChannelSecret + 1, bytes),
      Undecodable(GenerateSignature(ChannelSecret, bytes)) }

Requests ==
    UNION { { [signature |-> sg, bytes |-> DocBytes(k), doc |-> WebhookDocs[k]] :
                sg \in SignaturesTried(DocBytes(k)) } :
            k \in 1..Len(WebhookDocs) }

\* serde_json::from_slice::<LineWebhookRequest>: every event of the array must
\* carry its required members.
ParseWebhookRequest(doc) ==
    IF ~doc.json \/ ~doc.hasEvents THEN Err("SerializationError", "webhook body")
    ELSE IF \E i \in 1..Len(doc.events) :
                \/ doc.events[i].type = Null
                \/ doc.events[i].source = "absent"
                \/ doc.events[i].message = "no_type"
         THEN Err("SerializationError", "webhook body")
         ELSE Ok("events")

(***************************************************************************)
(* The AI service's HTTP answer to run_conversation and the                *)
(* FunctionCallResult built from it (api/chatgpt.rs:180-230).              *)
(***************************************************************************)
Url(parses, scheme, hasHost) == [parses |-> parses, scheme |-> scheme, hasHost |-> hasHost]

NoUrl == Url(FALSE, Null, FALSE)

\* The url arguments tried.
UrlTexts ==
    { "https://example.com/path", "http://example.com", "ftp://example.com",
      "mailto:user@example.com", "http://", "not a url" }

\* Url::parse (stories.rs:274) on those texts: whether it succeeds, the scheme
\* the text starts with, and whether the parsed URL has a host.  "http://" is
\* refused for its empty host, "not a url" for having no scheme.
UrlParse(text) ==
    CASE text = "https://example.com/path" -> Url(TRUE, "https", TRUE)
      [] text = "http://example.com" -> Url(TRUE, "http", TRUE)
      [] text = "ftp://example.com" -> Url(TRUE, "ftp", TRUE)
      [] text = "mailto:user@example.com" -> Url(TRUE, "mailto", FALSE)
      [] text = "http://" -> Url(FALSE, "http", FALSE)
      [] OTHER -> Url(FALSE, Null, FALSE)

Urls == { UrlParse(t) : t \in UrlTexts }

\* The JSON text of a tool call's "arguments": `json` is whether it parses,
\* `indexes` / `url` the members when present.  An index below 0 stands for
\* any array element that is not an unsigned integer.
Args(json, hasIndexes, indexes, hasUrl, url) ==
    [json |-> json, hasIndexes |-> hasIndexes, indexes |-> indexes,
     hasUrl |-> hasUrl, url |-> url]

NoArgs == Args(FALSE, FALSE, <<>>, FALSE, NoUrl)

OverLimitIndexes == [i \in 1..(MaxIndexes + 1) |-> 1 + (i % NStories)]

AiIndexLists ==
    { <<>>, <<1>>, <<2, 1>>, <<-1, 1>>, <<0>>, <<NStories + 1>>,
      <<1, 2, NStories + 1>>, OverLimitIndexes }

ArgsTried ==
    { NoArgs, Args(TRUE, FALSE, <<>>, FALSE, NoUrl) }
        \cup { Args(TRUE, TRUE, L, FALSE, NoUrl) : L \in AiIndexLists }
        \cup { Args(TRUE, FALSE, <<>>, TRUE, u) : u \in Urls }

ToolNames == {"reply_latest_story", "push_summary", "push_url_summary", "get_weather"}

\* kind: "network_error" | "http_error" | "bad_json" | "no_choices" | "tool"
\*       | "no_tool" (tool_calls absent or empty).
AiResponse(kind, name, arguments, content) ==
    [kind |-> kind, name |-> name, arguments |-> arguments, content |-> content]

AiResponses ==
    { AiResponse(k, Null, NoArgs, Null) :
        k \in {"network_error", "http_error", "bad_json", "no_choices"} }
        \cup { AiResponse("tool", n, a, Null) : n \in ToolNames, a \in ArgsTried }
        \cup { AiResponse("no_tool", Null, NoArgs, c) : c \in {Null, "hello"} }

FunctionCall(name, arguments, message) ==
    [name |-> name, arguments |-> arguments, message |-> message]

\* Answering a plain message when the AI service fails, instead of the error
\* (mutant of RunConversation).
RunConversation_FallbackOnError(resp) ==
    IF resp.kind = "tool"
    THEN Ok(FunctionCall(resp.name, resp.arguments, Null))
    ELSE Ok(FunctionCall(Null, NoArgs, "hello"))

\* chatgpt::run_conversation.
RunConversation(resp) ==
    CASE resp.kind = "network_error" -> Err("NetworkError", "send")
      [] resp.kind = "http_error" -> Err("ExternalServiceError", "AI service error")
      [] resp.kind = "bad_json" -> Err("SerializationError", "response")
      [] resp.kind = "no_choices" -> Err("AiError", "No choices in response")
      [] resp.kind = "tool" -> Ok(FunctionCall(resp.name, resp.arguments, Null))
      [] OTHER -> Ok(FunctionCall(Null, NoArgs, resp.content))

LanguageCodes == {"en", "zh-tw", "ja"}

CallErrors == {"NetworkError", "ExternalServiceError"}

(***************************************************************************)
(* Story source (rss.rs) as seen by the handlers.                          *)
(***************************************************************************)
\* The parsed RSS channel: whether it has a first item, whether that item has
\* a title, a link and a description, and how many `a.storylink` anchors the
\* description holds.
Channel(hasItem, hasTitle, hasLink, hasDescription, stories) ==
    [hasItem |-> hasItem, hasTitle |-> hasTitle, hasLink |-> hasLink,
     hasDescription |-> hasDescription, stories |-> stories]

NoChannel == Channel(FALSE, FALSE, FALSE, FALSE, 0)

Channels ==
    { NoChannel, Channel(TRUE, FALSE, TRUE, TRUE, 1), Channel(TRUE, TRUE, FALSE, TRUE, 1),
      Channel(TRUE, TRUE, TRUE, FALSE, 0) }
        \cup { Channel(TRUE, TRUE, TRUE, TRUE, n) : n \in 0..NStories }

\* Whether the function behind an outbound call runs its request under
\* utils::with_retry: rss::fetch_feed does (rss.rs:9), no other function does.
ViaRetry(api) == api = "fetch_feed"

\* Results of rss::fetch_feed (itself run under with_retry).
FetchOutcomes ==
    { [ok |-> FALSE, err |-> k, channel |-> NoChannel] : k \in CallErrors }
        \cup { [ok |-> TRUE, err |-> "", channel |-> c] : c \in Channels }

\* rss::get_latest_stories: the number of stories of the list it returns.
GetLatestStories(fetch) ==
    IF ~fetch.ok THEN Err(fetch.err, "fetch_feed")
    ELSE IF ~fetch.channel.hasItem \/ ~fetch.channel.hasDescription
         THEN Err("ExternalServiceError", "No stories found in RSS feed")
    ELSE IF fetch.channel.stories = 0
         THEN Err("ExternalServiceError", "No stories found in RSS feed")
    ELSE Ok("stories")

\* The story list of a feed of n stories, in feed order: story k is the k-th.
Feed(n) == [k \in 1..n |-> k]

\* Rust slice indexing: v[j] is the (j+1)-th element.
VecGet(v, j) == v[j + 1]

\* models.rs:36-51: a message of a LINE request.
LineMessage(message_type, text, alt_text, contents) ==
    [message_type |-> message_type, text |-> text, alt_text |-> alt_text,
     contents |-> contents]

NoLineMessage == LineMessage(Null, Null, Null, Null)

\* A flex message carrying the text as its alternative text (mutant of
\* CreateTextMessage).
CreateTextMessage_AsFlex(text) == LineMessage("flex", Null, text, Null)

\* line::create_text_message.
CreateTextMessage(text) == LineMessage("text", text, Null, Null)

\* line::create_summary_bubble: a flex bubble whose body holds the summary.
CreateSummaryBubble(summary) ==
    LineMessage("flex", Null, "Today's Hacker News Summary", summary)

\* stories.rs:77: format!("Latest story: {}\n{}", title, link), of the title
\* and link of the feed's first <item> ("item") or of the first Story that
\* get_latest_stories builds from the anchors of that item's description
\* ("story"); the two are different data of the feed.
LatestStoryFormat(source) ==
    IF source = "item"
    THEN "Latest story: item.title item.link"
    ELSE "Latest story: stories[0].story stories[0].storylink"

\* stories::get_latest_story_message.
GetLatestStoryMessage(fetch) ==
    IF ~fetch.ok THEN Err(fetch.err, "fetch_feed")
    ELSE IF ~fetch.channel.hasItem THEN Err("ExternalServiceError", "No stories found")
    ELSE IF ~fetch.channel.hasTitle THEN Err("ExternalServiceError", "No title found")
    ELSE IF ~fetch.channel.hasLink THEN Err("ExternalServiceError", "No link found")
    ELSE Ok(CreateTextMessage(LatestStoryFormat("item")))

\* Selecting without the upper range check (mutant of SelectStories).
SelectStories_NoUpperCheck(indexes, n) ==
    LET kept == SelectSeq(indexes, LAMBDA i : i > 0)
    IN  [j \in 1..Len(kept) |-> IF kept[j] <= n THEN VecGet(Feed(n), kept[j] - 1) ELSE 0]

\* Falling back to the first story when no index is in range (mutant of
\* SelectStories).
SelectStories_FirstWhenNoneInRange(indexes, n) ==
    LET kept == SelectSeq(indexes, LAMBDA i : i > 0 /\ i <= n)
    IN  IF kept = <<>> /\ indexes # <<>> /\ n > 0
        THEN <<VecGet(Feed(n), 0)>>
        ELSE [j \in 1..Len(kept) |-> VecGet(Feed(n), kept[j] - 1)]

\* stories.rs:211-220: the stories picked by the 1-based indexes, in order.
SelectStories(indexes, n) ==
    LET kept == SelectSeq(indexes, LAMBDA i : i > 0 /\ i <= n)
    IN  [j \in 1..Len(kept) |-> VecGet(Feed(n), kept[j] - 1)]

\* stories.rs:227-232: one numbered segment per selected story.
StoriesText(selected) == [j \in 1..Len(selected) |-> <<j, selected[j]>>]

\* Translating whatever is not English, the default language included (mutant
\* of NeedsTranslation).
NeedsTranslation_ExceptEnglish(language_code) == language_code # "en"

\* stories.rs:238, 263: "Translate if needed".
NeedsTranslation(language_code) == language_code # "en" /\ language_code # "zh-tw"

\* Looking only at the scheme the text starts with, without parsing it
\* (mutant of IsValidUrl).
IsValidUrl_SchemePrefixOnly(url) == url.scheme \in {"http", "https"}

\* Accepting any parsed URL that has a host, whatever its scheme (mutant of
\* IsValidUrl).
IsValidUrl_AnyScheme(url) == url.parses /\ url.hasHost

\* stories::is_valid_url.
IsValidUrl(url) == url.parses /\ url.scheme \in {"http", "https"} /\ url.hasHost

(***************************************************************************)
(* Records of the observable effects.                                      *)
(***************************************************************************)
\* One outbound call: for a LINE call `text` is the list of messages sent, for
\* the other calls the text given.
Call(api, to, text, stories, lang) ==
    [api |-> api, to |-> to, text |-> text, stories |-> stories, lang |-> lang]

\* The configured values that must stay out of the logs: the LINE channel
\* secret and channel access token, the AI key and the summarizer key.
SecretValues == {"channel_secret", "channel_token", "chatgpt_secret", "kagi_secret"}

\* What the Debug or Display text of an ApiError can hold: the fixed text of
\* its message, the endpoint URL and cause of a reqwest error, an upstream
\* status, the body of an upstream error answer, a serde_json error.
ApiErrorShows == {"error_text", "endpoint_url", "http_status", "upstream_body", "parse_error"}

\* The signature failure logged with the channel secret and the signature
\* next to it, as an earlier verifier did (mutant of LogArgs).
LogArgs_WithChannelSecret(msg) ==
    IF msg = "Invalid signature" THEN {"channel_secret", "signature"} ELSE {}

\* The values each log statement formats into its record, by its text.
LogArgs(msg) ==
    CASE msg \in {"Invalid signature", "Signature validation failed"} -> {"error_text"}
      [] msg = "Failed to parse webhook body" -> {"parse_error"}
      [] msg = "Received non-message event" -> {"event_type"}
      [] msg \in {"Failed to get language code", "ChatGPT error",
                  "Failed to reply with latest story", "Error getting latest story",
                  "Failed to push story summaries", "Failed to push URL summary",
                  "Failed to push message"} -> ApiErrorShows
      [] msg = "ChatGPT API error: HTTP" -> {"http_status"}
      [] msg = "Response from function calling" -> {"upstream_body"}
      [] msg = "Function call" -> {"function_call"}
      [] msg = "Failed to create Authorization header" -> {"error_text"}
      [] msg = "Failed to get prompt" -> {"config_key", "error_text"}
      [] OTHER -> {}

Log(level, msg) == [level |-> level, msg |-> msg, shows |-> LogArgs(msg)]

NoResponse == [status |-> 0, success |-> FALSE, error |-> Null]

NoFunctionCall == FunctionCall(Null, NoArgs, Null)

EnvIdle ==
    [text |-> Null, language_code |-> Null, reply_token |-> Null, user_id |-> Null,
     function_call |-> NoFunctionCall, caller |-> Null, indexes |-> <<>>,
     url |-> NoUrl, message |-> Null, story_count |-> 0, selected |-> <<>>,
     summary |-> Null, translated |-> Null, chatgpt_response |-> Null,
     line_message |-> NoLineMessage, config_faults |-> {}]

\* Faults of the loaded configuration that a request meets: a channel token
\* or a summarizer key that is no legal header value, a prompt missing from
\* the prompts file.
ConfigFaults ==
    { {}, {"channel_token"}, {"kagi_secret"}, {"prompt"},
      {"channel_token", "kagi_secret", "prompt"} }

NoRequest == [signature |-> <<>>, bytes |-> <<>>, doc |-> WebhookDocs[1]]

InitSigIdle == sigCase = SigIdle

\* Everything one request owns: the handler's and the task's locals and what
\* they have done so far.
Context(c_req, c_hpc, c_response, c_tpc, c_env, c_calls, c_logs, c_result) ==
    [req |-> c_req, hpc |-> c_hpc, response |-> c_response, tpc |-> c_tpc,
     env |-> c_env, calls |-> c_calls, logs |-> c_logs, taskResult |-> c_result]

\* No second task; `config` stands for the CONFIG_CACHE snapshot and
\* `client` for HTTP_CLIENT, the two statics every task reads.
NoParked ==
    [id |-> 0, config |-> {}, client |-> "built",
     ctx |-> Context(NoRequest, "idle", NoResponse, "none", EnvIdle, <<>>, <<>>, NoResult)]

InitPeerIdle == parked = NoParked

(***************************************************************************)
(* rss::get_latest_stories (rss.rs:42-82) on the anchors of the first      *)
(* item's description.                                                     *)
(***************************************************************************)
MaxAnchors == 3         \* anchors in a description: 0..MaxAnchors

\* An <a class="storylink"> element: whether it has an href attribute, the
\* attribute's value and the element's text.
Anchor(hasHref, href, text) == [hasHref |-> hasHref, href |-> href, text |-> text]

Anchors ==
    { Anchor(TRUE, "https://a.example/", "Story A"),
      Anchor(FALSE, "", "Story A"),
      Anchor(TRUE, "", "Story A"),
      Anchor(TRUE, "https://a.example/", "") }

\* models.rs: struct Story { storylink, story }.
Story(story, storylink) == [story |-> story, storylink |-> storylink]

\* The result of fetch_feed: an error, or a channel with or without a first
\* item, which has or lacks a description holding `anchors`.
FeedDoc(err, hasItem, hasDescription, anchors) ==
    [err |-> err, hasItem |-> hasItem, hasDescription |-> hasDescription,
     anchors |-> anchors]

\* rss.rs:62-74: filter_map drops the anchors without href and keeps the
\* others as they are: href as storylink, the collected text as story.
StoryList(anchors) ==
    LET kept == SelectSeq(anchors, LAMBDA a : a.hasHref)
    IN  [j \in 1..Len(kept) |-> Story(kept[j].text, kept[j].href)]

\* rss::get_latest_stories; `stories` is the list of an Ok result.
GetLatestStoriesOf(doc) ==
    LET none == [ok |-> FALSE, err |-> "ExternalServiceError",
                 msg |-> "No stories found in RSS feed", stories |-> <<>>]
    IN  IF doc.err # ""
        THEN [none EXCEPT !.err = doc.err, !.msg = "fetch_feed"]
        ELSE IF ~doc.hasItem \/ ~doc.hasDescription THEN none
        ELSE IF StoryList(doc.anchors) = <<>> THEN none
        ELSE [ok |-> TRUE, err |-> "", msg |-> "", stories |-> StoryList(doc.anchors)]

NoFeedCase ==
    [doc |-> FeedDoc("", FALSE, FALSE, <<>>), done |-> FALSE,
     result |-> GetLatestStoriesOf(FeedDoc("", FALSE, FALSE, <<>>))]

InitFeedIdle == feedCase = NoFeedCase

InitTaskIdle ==
    /\ req = NoRequest
    /\ hpc = "idle"
    /\ response = NoResponse
    /\ tpc = "none"
    /\ env = EnvIdle
    /\ calls = <<>>
    /\ logs = <<>>
    /\ taskResult = NoResult

InitPipeIdle == InitTaskIdle /\ InitPeerIdle /\ InitFeedIdle

(***************************************************************************)
(* parse_request_handler (handlers/webhook.rs:11-54).                      *)
(***************************************************************************)
\* webhook.rs validate_signature: the verifier's error replaced by one string.
WebhookValidateSignature(signature, bytes) ==
    LET r == ValidateSignature(ChannelSecret, signature, bytes)
    IN  IF r.ok THEN Ok("unit") ELSE Err("String", "Invalid signature")

\* Spawning whatever the verification result (mutant of SpawnsTask).
SpawnsTask_Always(result) == TRUE

\* webhook.rs:16-24: tokio::spawn only in the Ok(()) arm.
SpawnsTask(result) == result.ok

\* The failure status of the earlier handler revision (mutant of ResponseFor).
ResponseFor_Status500(result) ==
    IF result.ok
    THEN [status |-> 200, success |-> TRUE, error |-> Null]
    ELSE [status |-> 500, success |-> FALSE, error |-> "Invalid signature"]

\* webhook.rs:26-37: the reply of each arm.
ResponseFor(result) ==
    IF result.ok
    THEN [status |-> 200, success |-> TRUE, error |-> Null]
    ELSE [status |-> 401, success |-> FALSE, error |-> "Invalid signature"]

\* Returning only once the background task has ended (mutant of MayRespond).
MayRespond_AfterTask == hpc = "spawned" /\ tpc = "done"

\* webhook.rs:22-29: the handler returns right after tokio::spawn, which does
\* not wait for the task.
MayRespond == hpc = "spawned"

\* Verification, then either the spawn or the 401 reply.
HandleWebhook ==
    /\ hpc = "recv"
    /\ LET r == WebhookValidateSignature(req.signature, req.bytes)
       IN  IF SpawnsTask(r)
           THEN /\ hpc' = "spawned"
                /\ tpc' = "parse"
                /\ UNCHANGED <<response, logs>>
           ELSE /\ hpc' = "done"
                /\ response' = ResponseFor(r)
                /\ logs' = logs \o << Log("error", "Invalid signature"),
                                      Log("error", "Signature validation failed") >>
                /\ tpc' = tpc
    /\ UNCHANGED <<req, env, calls, taskResult, sigVars, retryVars, peerVars, feedVars>>

\* The handler's return after the spawn.
HandlerRespond ==
    /\ MayRespond
    /\ hpc' = "done"
    /\ response' = ResponseFor(WebhookValidateSignature(req.signature, req.bytes))
    /\ UNCHANGED <<req, tpc, env, calls, logs, taskResult, sigVars, retryVars, peerVars, feedVars>>

(***************************************************************************)
(* process_request (handlers/webhook.rs:57-142): the detached task.        *)
(***************************************************************************)
\* The same without the check of the message text (mutant of ProcessRequestHead).
ProcessRequestHead_NoTextCheck(doc) ==
    IF ~ParseWebhookRequest(doc).ok
    THEN [next |-> "done", log |-> Log("error", "Failed to parse webhook body")]
    ELSE IF Len(doc.events) = 0
    THEN [next |-> "done", log |-> Log("warn", "No events in webhook payload")]
    ELSE IF doc.events[1].type # "message"
    THEN [next |-> "done", log |-> Log("info", "Received non-message event")]
    ELSE [next |-> "lang", log |-> Log("none", "")]

\* Going on when any entry of the array is a text message, not only the
\* first (mutant of ProcessRequestHead).
ProcessRequestHead_AnyMessageEvent(doc) ==
    IF ~ParseWebhookRequest(doc).ok
    THEN [next |-> "done", log |-> Log("error", "Failed to parse webhook body")]
    ELSE IF Len(doc.events) = 0
    THEN [next |-> "done", log |-> Log("warn", "No events in webhook payload")]
    ELSE IF \A i \in 1..Len(doc.events) : doc.events[i].type # "message"
    THEN [next |-> "done", log |-> Log("info", "Received non-message event")]
    ELSE IF \A i \in 1..Len(doc.events) : doc.events[i].message = "absent"
    THEN [next |-> "done", log |-> Log("info", "Received event without message")]
    ELSE IF \A i \in 1..Len(doc.events) : doc.events[i].text = Null \/ doc.events[i].text = ""
    THEN [next |-> "done", log |-> Log("info", "Received message without text content")]
    ELSE [next |-> "lang", log |-> Log("none", "")]

\* Taking the message text with unwrap(), which panics when the message has
\* no text (mutant of ProcessRequestHead).
ProcessRequestHead_UnwrapsText(doc) ==
    IF ~ParseWebhookRequest(doc).ok
    THEN [next |-> "done", log |-> Log("error", "Failed to parse webhook body")]
    ELSE IF Len(doc.events) = 0
    THEN [next |-> "done", log |-> Log("warn", "No events in webhook payload")]
    ELSE IF doc.events[1].type # "message"
    THEN [next |-> "done", log |-> Log("info", "Received non-message event")]
    ELSE IF doc.events[1].message = "absent"
    THEN [next |-> "done", log |-> Log("info", "Received event without message")]
    ELSE IF doc.events[1].text = Null
    THEN [next |-> "panicked", log |-> Log("none", "")]
    ELSE IF doc.events[1].text = ""
    THEN [next |-> "done", log |-> Log("info", "Received message without text content")]
    ELSE [next |-> "lang", log |-> Log("none", "")]

\* webhook.rs:61-98: what the task does with the body before its first await.
ProcessRequestHead(doc) ==
    IF ~ParseWebhookRequest(doc).ok
    THEN [next |-> "done", log |-> Log("error", "Failed to parse webhook body")]
    ELSE IF Len(doc.events) = 0
    THEN [next |-> "done", log |-> Log("warn", "No events in webhook payload")]
    ELSE IF doc.events[1].type # "message"
    THEN [next |-> "done", log |-> Log("info", "Received non-message event")]
    ELSE IF doc.events[1].message = "absent"
    THEN [next |-> "done", log |-> Log("info", "Received event without message")]
    ELSE IF doc.events[1].text = Null \/ doc.events[1].text = ""
    THEN [next |-> "done", log |-> Log("info", "Received message without text content")]
    ELSE [next |-> "lang", log |-> Log("none", "")]

\* Taking an empty string for a reply token or user id the event lacks
\* (mutant of TaskParse).
TaskParse_EmptyForMissing ==
    /\ tpc = "parse"
    /\ LET h == ProcessRequestHead(req.doc)
           orEmpty(v) == IF v = Null THEN "" ELSE v
       IN  /\ tpc' = h.next
           /\ logs' = IF h.next = "done" THEN Append(logs, h.log) ELSE logs
           /\ env' = IF h.next = "done" THEN env
                     ELSE [env EXCEPT !.text = req.doc.events[1].text,
                                      !.reply_token = orEmpty(req.doc.events[1].replyToken),
                                      !.user_id = orEmpty(req.doc.events[1].userId)]
    /\ UNCHANGED <<req, hpc, response, calls, taskResult, sigVars, retryVars, peerVars, feedVars>>

TaskParse ==
    /\ tpc = "parse"
    /\ LET h == ProcessRequestHead(req.doc)
       IN  /\ tpc' = h.next
           /\ logs' = IF h.next = "done" THEN Append(logs, h.log) ELSE logs
           /\ env' = IF h.next = "done" THEN env
                     ELSE [env EXCEPT !.text = req.doc.events[1].text,
                                      !.reply_token = req.doc.events[1].replyToken,
                                      !.user_id = req.doc.events[1].userId]
    /\ UNCHANGED <<req, hpc, response, calls, taskResult, sigVars, retryVars, peerVars, feedVars>>

\* api/line.rs create_line_headers: the names of the headers every LINE
\* request (reply, push, broadcast) is sent with.
CreateLineHeaders(faults) ==
    {"Content-Type"} \cup (IF "channel_token" \in faults THEN {} ELSE {"Authorization"})

\* create_line_headers / create_kagi_headers: the record logged when the
\* token `secret` is no legal header value; the request goes out without it.
HeaderLog(faults, secret) ==
    IF secret \in faults
    THEN <<Log("error", "Failed to create Authorization header")>> ELSE <<>>

\* config::get_prompt: the record logged when the prompt is missing.
PromptLog(faults) ==
    IF "prompt" \in faults THEN <<Log("error", "Failed to get prompt")>> ELSE <<>>

\* get_chatgpt_response and send_chat_request: the records logged inside a
\* call that ends with `out`.
ChatLogs(faults, out) ==
    PromptLog(faults) \o (IF out = "ExternalServiceError"
                          THEN <<Log("error", "ChatGPT API error: HTTP")>> ELSE <<>>)

\* run_conversation: the records logged inside the call, by the AI's answer.
RunConversationLogs(resp) ==
    CASE resp.kind = "network_error" -> <<>>
      [] resp.kind = "http_error" -> <<Log("error", "ChatGPT API error: HTTP")>>
      [] resp.kind \in {"bad_json", "no_choices"} ->
            <<Log("info", "Response from function calling")>>
      [] OTHER -> << Log("info", "Response from function calling"),
                     Log("info", "Function call") >>

\* webhook.rs:100-107: language detection; a failure falls back to "en".
TaskLanguage ==
    /\ tpc = "lang"
    /\ \E out \in LanguageCodes \cup CallErrors :
          /\ calls' = Append(calls, Call("get_language_code", Null, env.text, <<>>, Null))
          /\ IF out \in CallErrors
             THEN /\ env' = [env EXCEPT !.language_code = "en"]
                  /\ logs' = logs \o ChatLogs(env.config_faults, out)
                                  \o <<Log("error", "Failed to get language code")>>
             ELSE /\ env' = [env EXCEPT !.language_code = out]
                  /\ logs' = logs \o ChatLogs(env.config_faults, out)
    /\ tpc' = "resolve"
    /\ UNCHANGED <<req, hpc, response, taskResult, sigVars, retryVars, peerVars, feedVars>>

\* webhook.rs:206-209: the array elements that are unsigned integers.
AsIndexes(raw) == SelectSeq(raw, LAMBDA i : i >= 0)

\* function_call_handler and the handle_* functions up to their first await
\* (webhook.rs:145-258): where the task goes next, and what it carries there.
Dispatch(fc, reply_token, user_id) ==
    LET stop == [next |-> "done", caller |-> Null, indexes |-> <<>>, url |-> NoUrl,
                 message |-> Null, result |-> NoResult, log |-> Log("none", "")]
    IN  CASE fc.name = "reply_latest_story" ->
                IF reply_token # Null
                THEN [stop EXCEPT !.next = "rls_fetch", !.caller = "handle_reply_latest_story"]
                ELSE stop
          [] fc.name = "push_summary" ->
                IF user_id # Null /\ fc.arguments.json /\ fc.arguments.hasIndexes
                   /\ AsIndexes(fc.arguments.indexes) # <<>>
                THEN [stop EXCEPT !.next = "pss_fetch", !.caller = "handle_push_summary",
                                  !.indexes = AsIndexes(fc.arguments.indexes)]
                ELSE stop
          [] fc.name = "push_url_summary" ->
                IF user_id # Null /\ fc.arguments.json /\ fc.arguments.hasUrl
                THEN IF IsValidUrl(fc.arguments.url)
                     THEN [stop EXCEPT !.next = "pus_summarize",
                                       !.caller = "handle_push_url_summary",
                                       !.url = fc.arguments.url]
                     ELSE [stop EXCEPT !.caller = "handle_push_url_summary",
                                       !.url = fc.arguments.url,
                                       !.result = Err("ValidationError", "Invalid URL provided"),
                                       !.log = Log("error", "Failed to push URL summary")]
                ELSE stop
          [] OTHER ->
                IF user_id # Null /\ fc.message # Null
                THEN [stop EXCEPT !.next = "ppm_push", !.caller = "handle_push_messages",
                                  !.message = fc.message]
                ELSE stop

\* webhook.rs:113-141: the command-resolution call, then the dispatch.
TaskResolve ==
    /\ tpc = "resolve"
    /\ \E resp \in AiResponses :
          LET r == RunConversation(resp)
              d == Dispatch(r.val, env.reply_token, env.user_id)
          IN  /\ calls' = Append(calls, Call("run_conversation", Null, env.text, <<>>, Null))
              /\ IF ~r.ok
                 THEN /\ tpc' = "done"
                      /\ logs' = logs \o RunConversationLogs(resp)
                                      \o <<Log("error", "ChatGPT error")>>
                      /\ env' = [env EXCEPT !.chatgpt_response = resp.kind]
                      /\ taskResult' = taskResult
                 ELSE /\ tpc' = d.next
                      /\ logs' = logs \o RunConversationLogs(resp)
                                      \o <<Log("info", "Function call")>>
                                      \o (IF d.log.level = "none" THEN <<>> ELSE <<d.log>>)
                      /\ env' = [env EXCEPT !.chatgpt_response = resp.kind,
                                            !.function_call = r.val,
                                            !.caller = d.caller,
                                            !.indexes = d.indexes,
                                            !.url = d.url,
                                            !.message = d.message]
                      /\ taskResult' = d.result
    /\ UNCHANGED <<req, hpc, response, sigVars, retryVars, peerVars, feedVars>>

(***************************************************************************)
(* The stories functions the task awaits (handlers/stories.rs) and the     *)
(* handle_* wrappers' logging of their Err (handlers/webhook.rs:180-258).  *)
(***************************************************************************)
\* The wrapper's log record for an Err result of the function it awaited.
FailureLog(caller) ==
    CASE caller = "handle_reply_latest_story" -> <<Log("error", "Failed to reply with latest story")>>
      [] caller = "handle_push_summary" -> <<Log("error", "Failed to push story summaries")>>
      [] caller = "handle_push_url_summary" -> <<Log("error", "Failed to push URL summary")>>
      [] caller = "handle_push_messages" -> <<Log("error", "Failed to push message")>>
      [] OTHER -> <<>>

\* Starting the reply over from the story fetch when the reply has failed,
\* for as long as fewer than eight calls have been made (mutant of Return).
Return_StartsOverOnFailedReply(result, inner) ==
    /\ tpc' = IF ~result.ok /\ result.val = "LINE reply error" /\ Len(calls) < 7
              THEN "rls_fetch" ELSE "done"
    /\ taskResult' = result
    /\ logs' = logs \o inner \o (IF result.ok THEN <<>> ELSE FailureLog(env.caller))

\* The function returns `result` to its wrapper and the task ends; `inner`
\* are the records logged inside the call that produced the result.
Return(result, inner) ==
    /\ tpc' = "done"
    /\ taskResult' = result
    /\ logs' = logs \o inner \o (IF result.ok THEN <<>> ELSE FailureLog(env.caller))

\* Replying with a notice before the story is fetched (mutant of RlsFetch).
RlsFetch_RepliesBeforeFetch ==
    /\ tpc = "rls_fetch"
    /\ \E fetch \in FetchOutcomes :
          LET m == GetLatestStoryMessage(fetch)
          IN  /\ calls' = calls \o
                    << Call("reply_message", env.reply_token,
                            <<CreateTextMessage("Fetching the latest story")>>, <<>>, Null),
                       Call("fetch_feed", Null, Null, <<>>, Null) >>
              /\ IF m.ok
                 THEN /\ tpc' = "rls_reply"
                      /\ env' = [env EXCEPT !.line_message = m.val]
                      /\ UNCHANGED <<logs, taskResult>>
                 ELSE /\ tpc' = "done"
                      /\ taskResult' = m
                      /\ logs' = Append(logs, Log("error", "Error getting latest story"))
                      /\ env' = env
    /\ UNCHANGED <<req, hpc, response, sigVars, retryVars, peerVars, feedVars>>

\* handle_reply_latest_story: get_latest_story_message().await
RlsFetch ==
    /\ tpc = "rls_fetch"
    /\ \E fetch \in FetchOutcomes :
          LET m == GetLatestStoryMessage(fetch)
          IN  /\ calls' = Append(calls, Call("fetch_feed", Null, Null, <<>>, Null))
              /\ IF m.ok
                 THEN /\ tpc' = "rls_reply"
                      /\ env' = [env EXCEPT !.line_message = m.val]
                      /\ UNCHANGED <<logs, taskResult>>
                 ELSE /\ tpc' = "done"
                      /\ taskResult' = m
                      /\ logs' = Append(logs, Log("error", "Error getting latest story"))
                      /\ env' = env
    /\ UNCHANGED <<req, hpc, response, sigVars, retryVars, peerVars, feedVars>>

\* Replying, and pushing the same message to the user as well (mutant of RlsReply).
RlsReply_AlsoPushes ==
    /\ tpc = "rls_reply"
    /\ \E out \in {"Ok"} \cup CallErrors :
          /\ calls' = calls \o
                << Call("reply_message", env.reply_token, <<env.line_message>>, <<>>, Null),
                   Call("push_message", env.user_id, <<env.line_message>>, <<>>, Null) >>
          /\ Return(IF out = "Ok" THEN Ok("unit") ELSE Err(out, "LINE reply error"),
                    HeaderLog(env.config_faults, "channel_token"))
    /\ UNCHANGED <<req, hpc, response, env, sigVars, retryVars, peerVars, feedVars>>

\* handle_reply_latest_story: line::reply_message(...).await
RlsReply ==
    /\ tpc = "rls_reply"
    /\ \E out \in {"Ok"} \cup CallErrors :
          /\ calls' = Append(calls, Call("reply_message", env.reply_token, <<env.line_message>>, <<>>, Null))
          /\ Return(IF out = "Ok" THEN Ok("unit") ELSE Err(out, "LINE reply error"),
                    HeaderLog(env.config_faults, "channel_token"))
    /\ UNCHANGED <<req, hpc, response, env, sigVars, retryVars, peerVars, feedVars>>

\* push_story_summaries: rss::get_latest_stories().await, then the selection.
PssFetch ==
    /\ tpc = "pss_fetch"
    /\ \E fetch \in FetchOutcomes :
          LET st == GetLatestStories(fetch)
              n == fetch.channel.stories
              selected == SelectStories(env.indexes, n)
          IN  /\ calls' = Append(calls, Call("fetch_feed", Null, Null, <<>>, Null))
              /\ IF ~st.ok
                 THEN Return(st, <<>>) /\ env' = env
                 ELSE IF selected = <<>>
                 THEN /\ Return(Err("ValidationError", "No valid stories selected"), <<>>)
                      /\ env' = [env EXCEPT !.story_count = n]
                 ELSE /\ tpc' = "pss_summarize"
                      /\ env' = [env EXCEPT !.story_count = n, !.selected = selected]
                      /\ UNCHANGED <<logs, taskResult>>
    /\ UNCHANGED <<req, hpc, response, sigVars, retryVars, peerVars, feedVars>>

\* push_story_summaries: chatgpt::get_chatgpt_summary(stories_text).await
PssSummarize ==
    /\ tpc = "pss_summarize"
    /\ \E out \in {"Ok"} \cup CallErrors :
          /\ calls' = Append(calls, Call("get_chatgpt_summary", Null, Null,
                                         StoriesText(env.selected), Null))
          /\ IF out = "Ok"
             THEN /\ env' = [env EXCEPT !.summary = "summary of stories"]
                  /\ tpc' = IF NeedsTranslation(env.language_code)
                            THEN "pss_translate" ELSE "pss_push"
                  /\ logs' = logs \o ChatLogs(env.config_faults, out)
                  /\ taskResult' = taskResult
             ELSE Return(Err(out, "get_chatgpt_summary"), ChatLogs(env.config_faults, out)) /\ env' = env
    /\ UNCHANGED <<req, hpc, response, sigVars, retryVars, peerVars, feedVars>>

\* Keeping the untranslated summary when the translation fails, and going
\* on to the push (mutant of PssTranslate).
PssTranslate_FallsBackToUntranslated ==
    /\ tpc = "pss_translate"
    /\ \E out \in {"Ok"} \cup CallErrors :
          /\ calls' = Append(calls, Call("translate", Null, env.summary,
                                         StoriesText(env.selected), env.language_code))
          /\ env' = IF out = "Ok" THEN [env EXCEPT !.translated = env.language_code] ELSE env
          /\ tpc' = "pss_push"
          /\ logs' = logs \o ChatLogs(env.config_faults, out)
          /\ taskResult' = taskResult
    /\ UNCHANGED <<req, hpc, response, sigVars, retryVars, peerVars, feedVars>>

\* push_story_summaries: chatgpt::translate(summary, language_code).await
PssTranslate ==
    /\ tpc = "pss_translate"
    /\ \E out \in {"Ok"} \cup CallErrors :
          /\ calls' = Append(calls, Call("translate", Null, env.summary,
                                         StoriesText(env.selected), env.language_code))
          /\ IF out = "Ok"
             THEN /\ env' = [env EXCEPT !.translated = env.language_code]
                  /\ tpc' = "pss_push"
                  /\ logs' = logs \o ChatLogs(env.config_faults, out)
                  /\ taskResult' = taskResult
             ELSE Return(Err(out, "translate"), ChatLogs(env.config_faults, out)) /\ env' = env
    /\ UNCHANGED <<req, hpc, response, sigVars, retryVars, peerVars, feedVars>>

\* push_story_summaries: line::push_message(token, user_id, vec![bubble]).await
PssPush ==
    /\ tpc = "pss_push"
    /\ \E out \in {"Ok"} \cup CallErrors :
          /\ calls' = Append(calls, Call("push_message", env.user_id,
                                         <<CreateSummaryBubble(env.summary)>>,
                                         StoriesText(env.selected), env.translated))
          /\ Return(IF out = "Ok" THEN Ok("unit") ELSE Err(out, "LINE API error"),
                    HeaderLog(env.config_faults, "channel_token"))
    /\ UNCHANGED <<req, hpc, response, env, sigVars, retryVars, peerVars, feedVars>>

\* push_url_summary: kagi::summarize_url(url).await
PusSummarize ==
    /\ tpc = "pus_summarize"
    /\ \E out \in {"Ok"} \cup CallErrors :
          /\ calls' = Append(calls, Call("summarize_url", Null, env.url.scheme, <<>>, Null))
          /\ IF out = "Ok"
             THEN /\ env' = [env EXCEPT !.summary = "summary of url"]
                  /\ tpc' = IF NeedsTranslation(env.language_code)
                            THEN "pus_translate" ELSE "pus_push"
                  /\ logs' = logs \o HeaderLog(env.config_faults, "kagi_secret")
                  /\ taskResult' = taskResult
             ELSE Return(Err(out, "summarize_url"),
                         HeaderLog(env.config_faults, "kagi_secret")) /\ env' = env
    /\ UNCHANGED <<req, hpc, response, sigVars, retryVars, peerVars, feedVars>>

\* push_url_summary: chatgpt::translate(summary, language_code).await
PusTranslate ==
    /\ tpc = "pus_translate"
    /\ \E out \in {"Ok"} \cup CallErrors :
          /\ calls' = Append(calls, Call("translate", Null, env.summary, <<>>, env.language_code))
          /\ IF out = "Ok"
             THEN /\ env' = [env EXCEPT !.translated = env.language_code]
                  /\ tpc' = "pus_push"
                  /\ logs' = logs \o ChatLogs(env.config_faults, out)
                  /\ taskResult' = taskResult
             ELSE Return(Err(out, "translate"), ChatLogs(env.config_faults, out)) /\ env' = env
    /\ UNCHANGED <<req, hpc, response, sigVars, retryVars, peerVars, feedVars>>

\* push_url_summary: line::push_message(token, user_id, vec![bubble]).await
PusPush ==
    /\ tpc = "pus_push"
    /\ \E out \in {"Ok"} \cup CallErrors :
          /\ calls' = Append(calls, Call("push_message", env.user_id,
                                         <<CreateSummaryBubble(env.summary)>>,
                                         <<>>, env.translated))
          /\ Return(IF out = "Ok" THEN Ok("unit") ELSE Err(out, "LINE API error"),
                    HeaderLog(env.config_faults, "channel_token"))
    /\ UNCHANGED <<req, hpc, response, env, sigVars, retryVars, peerVars, feedVars>>

\* Pushing a second time when the push fails (mutant of PpmPush).
PpmPush_PushesAgainOnFailure ==
    /\ tpc = "ppm_push"
    /\ \E out \in {"Ok"} \cup CallErrors :
          LET push == Call("push_message", env.user_id,
                           <<CreateTextMessage(env.message)>>, <<>>, Null)
          IN  /\ calls' = calls \o (IF out = "Ok" THEN <<push>> ELSE <<push, push>>)
              /\ Return(IF out = "Ok" THEN Ok("unit") ELSE Err(out, "LINE API error"),
                    HeaderLog(env.config_faults, "channel_token"))
    /\ UNCHANGED <<req, hpc, response, env, sigVars, retryVars, peerVars, feedVars>>

\* handle_push_messages: line::push_message(token, user_id, vec![text]).await
PpmPush ==
    /\ tpc = "ppm_push"
    /\ \E out \in {"Ok"} \cup CallErrors :
          /\ calls' = Append(calls, Call("push_message", env.user_id,
                                         <<CreateTextMessage(env.message)>>, <<>>, Null))
          /\ Return(IF out = "Ok" THEN Ok("unit") ELSE Err(out, "LINE API error"),
                    HeaderLog(env.config_faults, "channel_token"))
    /\ UNCHANGED <<req, hpc, response, env, sigVars, retryVars, peerVars, feedVars>>

(***************************************************************************)
(* SpecSig: a signature is produced for (secret, body), then verified      *)
(* as it is, with one byte of the body changed, or with one character of   *)
(* the signature changed.                                                  *)
(***************************************************************************)
SigCase(kind, secret, body, vbody, vsig) ==
    [kind |-> kind, secret |-> secret, body |-> body, vbody |-> vbody, vsig |-> vsig,
     result |-> IF kind = "signed" THEN Ok("unit")
                ELSE ValidateSignature(secret, vsig, vbody),
     compared |-> IF kind = "signed" THEN 0
                  ELSE ValidateSignatureSteps(secret, vsig, vbody)]

InitSig ==
    /\ \E secret \in Secrets, body \in Bodies :
          sigCase = SigCase("signed", secret, body, body, GenerateSignature(secret, body))
    /\ InitRetryIdle
    /\ InitPipeIdle

VerifySame ==
    /\ sigCase.kind = "signed"
    /\ sigCase' = SigCase("same", sigCase.secret, sigCase.body, sigCase.body, sigCase.vsig)
    /\ UNCHANGED <<retryVars, pipeVars, peerVars, feedVars>>

VerifyBodyChanged ==
    /\ sigCase.kind = "signed"
    /\ \E p \in 1..Len(sigCase.body), b \in 0..MaxByte :
          /\ b # sigCase.body[p]
          /\ sigCase' = SigCase("body_changed", sigCase.secret, sigCase.body,
                                [sigCase.body EXCEPT ![p] = b], sigCase.vsig)
    /\ UNCHANGED <<retryVars, pipeVars, peerVars, feedVars>>

VerifySignatureChanged ==
    /\ sigCase.kind = "signed"
    /\ \E p \in 1..Len(sigCase.vsig), c \in B64Symbols :
          /\ c # sigCase.vsig[p]
          /\ sigCase' = SigCase("signature_changed", sigCase.secret, sigCase.body,
                                sigCase.body, [sigCase.vsig EXCEPT ![p] = c])
    /\ UNCHANGED <<retryVars, pipeVars, peerVars, feedVars>>

NextSig == VerifySame \/ VerifyBodyChanged \/ VerifySignatureChanged

SpecSig == InitSig /\ [][NextSig]_vars

(***************************************************************************)
(* SpecRetry: one call of with_retry on a scripted operation.              *)
(***************************************************************************)
InitRetry ==
    /\ rpc = "attempt"
    /\ opScript \in Scripts
    /\ invocations = <<>>
    /\ slept = <<>>
    /\ spawnErr = 0
    /\ retResult = NoRetryResult
    /\ InitSigIdle
    /\ InitPipeIdle

NextRetry == RetryAttempt \/ RetrySleep \/ RetryReinvoke

SpecRetry == InitRetry /\ [][NextRetry]_vars

(***************************************************************************)
(* SpecPush: one call of push_story_summaries(token, user_id,              *)
(* language_code, indexes).                                                *)
(***************************************************************************)
IndexLists == SeqsUpTo(0..(NStories + 1), MaxIdxLen)

InitPush ==
    /\ \E L \in IndexLists, lang \in LanguageCodes :
          env = [EnvIdle EXCEPT !.indexes = L, !.language_code = lang,
                                !.user_id = "U1", !.caller = "push_story_summaries"]
    /\ tpc = "pss_fetch"
    /\ req = NoRequest
    /\ hpc = "idle"
    /\ response = NoResponse
    /\ calls = <<>>
    /\ logs = <<>>
    /\ taskResult = NoResult
    /\ InitSigIdle
    /\ InitRetryIdle
    /\ InitPeerIdle
    /\ InitFeedIdle

NextPush == PssFetch \/ PssSummarize \/ PssTranslate \/ PssPush

SpecPush == InitPush /\ [][NextPush]_vars

(***************************************************************************)
(* Spec: one webhook request, its handler and its background task.         *)
(* SpecAck: the same with the handler's own steps weakly fair and nothing  *)
(* assumed of the task: an outbound call of the task may never return.     *)
(***************************************************************************)
Init ==
    /\ req \in Requests
    /\ hpc = "recv"
    /\ response = NoResponse
    /\ tpc = "none"
    /\ \E faults \in ConfigFaults : env = [EnvIdle EXCEPT !.config_faults = faults]
    /\ calls = <<>>
    /\ logs = <<>>
    /\ taskResult = NoResult
    /\ InitSigIdle
    /\ InitRetryIdle
    /\ InitPeerIdle
    /\ InitFeedIdle

Next ==
    \/ HandleWebhook
    \/ HandlerRespond
    \/ TaskParse
    \/ TaskLanguage
    \/ TaskResolve
    \/ RlsFetch
    \/ RlsReply
    \/ PssFetch
    \/ PssSummarize
    \/ PssTranslate
    \/ PssPush
    \/ PusSummarize
    \/ PusTranslate
    \/ PusPush
    \/ PpmPush

Spec == Init /\ [][Next]_vars

SpecAck == Spec /\ WF_vars(HandleWebhook) /\ WF_vars(HandlerRespond)

\* The steps of the background task.
TaskNext ==
    \/ TaskParse \/ TaskLanguage \/ TaskResolve
    \/ RlsFetch \/ RlsReply
    \/ PssFetch \/ PssSummarize \/ PssTranslate \/ PssPush
    \/ PusSummarize \/ PusTranslate \/ PusPush
    \/ PpmPush

\* SpecLive: the same with the task's steps weakly fair: the runtime keeps
\* polling a spawned task, and every outbound call returns, with its answer,
\* an error or the shared client's timeout (utils.rs:12-20).
SpecLive == Spec /\ WF_vars(TaskNext)

(***************************************************************************)
(* SpecDrop: SpecLive with a caller that may go away.  The connection is    *)
(* closed, or the caller times out, once the request has been received:     *)
(* the handler's future or its finished response is dropped and nothing is  *)
(* sent.  The task was detached by tokio::spawn, whose JoinHandle the       *)
(* handler drops at once.                                                   *)
(***************************************************************************)
\* The task ending with the handler, as a future awaited inside the handler
\* would (mutant of ResponseDropped).
ResponseDropped_AbortsTask ==
    /\ hpc \in {"spawned", "done"}
    /\ hpc' = "dropped"
    /\ tpc' = IF tpc \in {"none", "done"} THEN tpc ELSE "aborted"
    /\ UNCHANGED <<req, response, env, calls, logs, taskResult, sigVars, retryVars, peerVars, feedVars>>

\* webhook.rs:22-29: the caller goes away after the spawn; the JoinHandle is
\* not kept, so nothing reaches the task.
ResponseDropped ==
    /\ hpc \in {"spawned", "done"}
    /\ hpc' = "dropped"
    /\ UNCHANGED <<req, response, tpc, env, calls, logs, taskResult, sigVars, retryVars, peerVars, feedVars>>

NextDrop == Next \/ ResponseDropped

SpecDrop == Init /\ [][NextDrop]_vars /\ WF_vars(TaskNext)

(***************************************************************************)
(* SpecTwo: the tasks of two verified and acknowledged requests on one     *)
(* runtime.  The pipeline variables hold the task being polled, `parked`   *)
(* the other one; the runtime switches between them where a task awaits.   *)
(* Both read the same two statics, CONFIG_CACHE and HTTP_CLIENT             *)
(* (utils.rs:12-75), and nothing else outlives a task.                      *)
(***************************************************************************)
\* The request of task i: its own reply token, user id and text.
TwoRequest(i) ==
    LET doc == [json |-> TRUE, hasEvents |-> TRUE,
                events |-> << Event("message",
                                    IF i = 1 THEN "R1" ELSE "R2", "ok",
                                    IF i = 1 THEN "U1" ELSE "U2", "ok",
                                    IF i = 1 THEN "today" ELSE "hello bot") >>]
    IN  [signature |-> GenerateSignature(ChannelSecret, DocBytes(i)),
         bytes |-> DocBytes(i), doc |-> doc]

\* The AI answers followed in SpecTwo: one per command, and a failure.
FocusCalls ==
    { NoFunctionCall,
      FunctionCall("reply_latest_story", NoArgs, Null),
      FunctionCall("push_summary", Args(TRUE, TRUE, <<1>>, FALSE, NoUrl), Null),
      FunctionCall("push_url_summary",
                   Args(TRUE, FALSE, <<>>, TRUE, UrlParse("https://example.com/path")), Null),
      FunctionCall(Null, NoArgs, "hello") }

InFocus ==
    /\ env.function_call \in FocusCalls
    /\ env.chatgpt_response \in {Null, "network_error", "tool", "no_tool"}
    /\ env.language_code \in {Null, "en", "ja"}

\* The task being polled, as a context.
Current == Context(req, hpc, response, tpc, env, calls, logs, taskResult)

InitTwo ==
    /\ \E faults \in {{}, {"prompt"}} :
          LET start(i) == Context(TwoRequest(i), "done", ResponseFor(Ok("unit")), "parse",
                                  [EnvIdle EXCEPT !.config_faults = faults],
                                  <<>>, <<>>, NoResult)
          IN  /\ req = start(1).req
              /\ hpc = start(1).hpc
              /\ response = start(1).response
              /\ tpc = start(1).tpc
              /\ env = start(1).env
              /\ calls = start(1).calls
              /\ logs = start(1).logs
              /\ taskResult = start(1).taskResult
              /\ parked = [id |-> 2, config |-> faults, client |-> "built", ctx |-> start(2)]
    /\ InitSigIdle
    /\ InitRetryIdle
    /\ InitFeedIdle

\* A task-wide "current user" kept in a static: the task resumed finds the
\* reply token and the user id the other task left there (mutant of Resume).
Resume_SharedRecipient(ctx, left) ==
    [ctx EXCEPT !.env = [ctx.env EXCEPT
                            !.user_id = IF left.env.user_id # Null
                                        THEN left.env.user_id ELSE @,
                            !.reply_token = IF left.env.reply_token # Null
                                            THEN left.env.reply_token ELSE @]]

\* process_request(body) owns its locals (webhook.rs:57-60): the task resumed
\* finds them as it left them, whatever the task `left` did meanwhile.
Resume(ctx, left) == ctx

\* The runtime parks the task being polled at an await and polls the other.
Switch ==
    /\ parked.id \in {1, 2}
    /\ parked.ctx.tpc # "done"
    /\ LET next == Resume(parked.ctx, Current)
       IN  /\ req' = next.req
           /\ hpc' = next.hpc
           /\ response' = next.response
           /\ tpc' = next.tpc
           /\ env' = next.env
           /\ calls' = next.calls
           /\ logs' = next.logs
           /\ taskResult' = next.taskResult
    /\ parked' = [parked EXCEPT !.id = 3 - parked.id, !.ctx = Current]
    /\ UNCHANGED <<sigVars, retryVars, feedVars>>

\* A step of the task being polled, with an AI answer of the focus.
TaskStep == TaskNext /\ InFocus'

NextTwo == TaskStep \/ Switch

SpecTwo == InitTwo /\ [][NextTwo]_vars

(***************************************************************************)
(* SpecStall: a task stays suspended on an AI or summarization call that   *)
(* does not return, and a second request arrives.  Each request is served  *)
(* by its own future and its task by its own tokio::spawn                  *)
(* (handlers/webhook.rs:22-24), on the multi-threaded runtime of           *)
(* #[tokio::main] (main.rs:23).                                            *)
(***************************************************************************)
\* The positions where the next step of a task awaits the AI or the summarizer.
SlowCallPositions ==
    {"lang", "resolve", "pss_summarize", "pss_translate", "pus_summarize", "pus_translate"}

\* One lock around all outbound calls, held across the await (mutant of
\* HeldAcrossAwait).
HeldAcrossAwait_CallLock(ctx) ==
    IF ctx.tpc \in SlowCallPositions THEN {"outbound"} ELSE {}

\* What a suspended task keeps others from taking: nothing.  The code has no
\* Mutex, RwLock or semaphore, and a task awaiting a response occupies no
\* worker thread.
HeldAcrossAwait(ctx) == {}

\* The requests that arrive second: a verified text message, the same with a
\* wrong signature, and a verified non-message event.
LaterRequests ==
    { TwoRequest(2),
      [TwoRequest(2) EXCEPT !.signature = GenerateSignature(ChannelSecret, DocBytes(1))],
      [TwoRequest(2) EXCEPT !.doc = WebhookDocs[6],
                            !.signature = GenerateSignature(ChannelSecret, DocBytes(6)),
                            !.bytes = DocBytes(6)] }

InitStall ==
    /\ \E faults \in {{}, {"prompt"}} :
          env = [EnvIdle EXCEPT !.config_faults = faults]
    /\ req = TwoRequest(1)
    /\ hpc = "done"
    /\ response = ResponseFor(Ok("unit"))
    /\ tpc = "parse"
    /\ calls = <<>>
    /\ logs = <<>>
    /\ taskResult = NoResult
    /\ parked = NoParked
    /\ InitSigIdle
    /\ InitRetryIdle
    /\ InitFeedIdle

\* The first task, until it is suspended for good.
EarlierStep == parked.id = 0 /\ TaskNext /\ InFocus'

\* The call the first task awaits does not return; the next request arrives.
Stall ==
    /\ parked.id = 0
    /\ tpc \in SlowCallPositions
    /\ parked' = [id |-> 1, config |-> env.config_faults, client |-> "built", ctx |-> Current]
    /\ req' \in LaterRequests
    /\ hpc' = "recv"
    /\ response' = NoResponse
    /\ tpc' = "none"
    /\ env' = [EnvIdle EXCEPT !.config_faults = env.config_faults]
    /\ calls' = <<>>
    /\ logs' = <<>>
    /\ taskResult' = NoResult
    /\ UNCHANGED <<sigVars, retryVars, feedVars>>

\* A step of the second request's handler or task while the first task is
\* suspended.
LaterStep ==
    /\ parked.id = 1
    /\ HeldAcrossAwait(parked.ctx) = {}
    /\ Next
    /\ InFocus'

NextStall == EarlierStep \/ Stall \/ LaterStep

\* Every outbound call of the second request returns (C30's hypothesis); the
\* first task's call need not.
SpecStall == InitStall /\ [][NextStall]_vars /\ WF_vars(LaterStep)

(***************************************************************************)
(* SpecStories: one call of rss::get_latest_stories.                       *)
(***************************************************************************)
Descriptions == SeqsUpTo(Anchors, MaxAnchors)

FeedDocs ==
    { FeedDoc(e, FALSE, FALSE, <<>>) : e \in CallErrors }
        \cup { FeedDoc("", FALSE, FALSE, <<>>), FeedDoc("", TRUE, FALSE, <<>>) }
        \cup { FeedDoc("", TRUE, TRUE, d) : d \in Descriptions }

InitStories ==
    /\ \E doc \in FeedDocs :
          feedCase = [doc |-> doc, done |-> FALSE, result |-> NoFeedCase.result]
    /\ InitSigIdle
    /\ InitRetryIdle
    /\ InitTaskIdle
    /\ InitPeerIdle

\* The call returns.
GetStories ==
    /\ ~feedCase.done
    /\ feedCase' = [feedCase EXCEPT !.done = TRUE, !.result = GetLatestStoriesOf(feedCase.doc)]
    /\ UNCHANGED <<sigVars, retryVars, pipeVars, peerVars>>

NextStories == GetStories

SpecStories == InitStories /\ [][NextStories]_vars

(***************************************************************************)
(* Properties.                                                             *)
(***************************************************************************)
\* The request carries the signature of its own body under the channel secret.
Authentic == req.signature = GenerateSignature(ChannelSecret, req.bytes)

DownstreamApis ==
    {"get_language_code", "run_conversation", "fetch_feed", "get_chatgpt_summary",
     "summarize_url", "translate", "reply_message", "push_message", "broadcast_message"}

\* C1: a request whose signature does not verify starts no background task
\* and makes no outbound call of any kind, at any time.
C1_NoDownstreamOnBadSignature ==
    ~Authentic => (tpc = "none" /\ calls = <<>>)

C1_Witness_Rejected ==
    ~Authentic /\ hpc = "done" /\ response.status = 401 /\ tpc = "none" /\ calls = <<>>

\* C2: once the handler has answered, the answer is 200 {"success": true}
\* exactly when the signature verified, whatever the background task has done
\* since; a failed verification is answered 401 or 400 with success false and
\* an error text.  No answer exists before the handler is done.
C2_ResponseIffVerified ==
    /\ hpc # "done" => response = NoResponse
    /\ hpc = "done" =>
          /\ (response.status = 200 /\ response.success) <=> Authentic
          /\ ~Authentic => /\ response.status \in {400, 401}
                           /\ ~response.success
                           /\ response.error # Null

C2_Witness_OkDespiteFailedDelivery ==
    /\ hpc = "done" /\ response.status = 200
    /\ tpc = "done" /\ ~taskResult.ok /\ taskResult.err \in CallErrors
    /\ \E i \in 1..Len(calls) : calls[i].api = "push_message"

\* C3: verifying a body against the signature generated from the same secret
\* and body succeeds; after changing one byte of the body, or one character of
\* the signature, verification fails.
C3_SignVerifyRoundTrip ==
    /\ sigCase.kind = "same" => sigCase.result.ok
    /\ sigCase.kind \in {"body_changed", "signature_changed"} => ~sigCase.result.ok

C3_Witness_DecodableButRejected ==
    /\ sigCase.kind = "signature_changed"
    /\ B64DecodeWith(sigCase.vsig, TRUE).ok
    /\ ~sigCase.result.ok

\* C4: once the task is spawned the handler's 200 follows, with no assumption
\* that any step of the task is ever taken (the task's calls may never return).
C4_AckDoesNotWait ==
    (hpc = "spawned") ~> (hpc = "done" /\ response.status = 200)

C4_Witness_AckBeforeAiCall ==
    hpc = "done" /\ response.status = 200 /\ tpc = "lang" /\ calls = <<>>

NonTransient == ErrorKinds \ {"NetworkError"}

\* C5 (as claimed): an operation that always fails with a non-transient error
\* is invoked once, with no backoff sleep, and its error is returned.
C5_NonTransientReturnsAtOnce ==
    (rpc = "done" /\ \A k \in 1..Len(opScript) : opScript[k] \in NonTransient)
        => (Len(invocations) = 1 /\ slept = <<>> /\ retResult = Invoke(opScript, 1))

\* C6 (as claimed): one call of with_retry invokes the operation at most 3 times.
C6_AtMostThreeInvocations == Len(invocations) <= RetryTake

\* C7 (as claimed): when every attempt of the retry schedule fails, the value
\* returned is the error of the schedule's last attempt, and the operation is
\* not invoked beyond that attempt.
C7_ReturnsLastAttemptError ==
    (rpc = "done" /\ \A k \in 1..(Len(CreateRetryStrategy) + 1) : opScript[k] # "Ok")
        => /\ Len(invocations) = Len(CreateRetryStrategy) + 1
           /\ retResult = invocations[spawnErr]

\* C8: an operation that fails twice with NetworkError and then succeeds makes
\* with_retry return the third invocation's value after exactly three
\* invocations.
C8_TwoTransientThenSuccess ==
    (rpc = "done" /\ opScript[1] = "NetworkError" /\ opScript[2] = "NetworkError"
        /\ opScript[3] = "Ok")
        => (retResult = Ok(3) /\ Len(invocations) = 3)

C8_Witness_ThirdAttemptSucceeds ==
    /\ rpc = "done" /\ Len(slept) = 2
    /\ opScript[1] = "NetworkError" /\ opScript[2] = "NetworkError" /\ opScript[3] = "Ok"

\* C9 (as claimed): a push_summary tool call with more than 5 indexes is
\* rejected before any story fetch, summarization, translation or push.
C9_TooManyIndexesRejected ==
    (env.function_call.name = "push_summary"
        /\ Len(env.function_call.arguments.indexes) > MaxIndexes)
        => \A i \in 1..Len(calls) :
              calls[i].api \in {"get_language_code", "run_conversation"}

\* The entries of L within [1, n], in the order of L.
InRange(L, n) == SelectSeq(L, LAMBDA i : i >= 1 /\ i <= n)

\* One numbered segment per in-range entry, naming the story at that feed position.
ExpectedSegments(L, n) ==
    [j \in 1..Len(InRange(L, n)) |-> <<j, Feed(n)[InRange(L, n)[j]]>>]

C11_BareEventRepliesOnce ==
    LET replies == {i \in 1..Len(calls) : calls[i].api = "reply_message"}
    IN  (/\ Authentic
         /\ req.doc = WebhookDocs[3]
         /\ hpc = "done" /\ tpc = "done"
         /\ (\E i \in 1..Len(calls) : calls[i].api = "run_conversation")
               => env.function_call.name = "reply_latest_story"
         /\ taskResult.err \in {"none", ""})
        => /\ response.status = 200 /\ response.success
           /\ Cardinality(replies) = 1
           /\ \A i \in replies : calls[i].to = "R1"
                                 /\ calls[i].text =
                                        <<CreateTextMessage(LatestStoryFormat("item"))>>

\* The task has made no call beyond the two AI calls that precede the dispatch.
NoCallAfterResolution ==
    \A i \in 1..Len(calls) : calls[i].api \in {"get_language_code", "run_conversation"}

\* C12: a push_url_summary whose url has no http/https scheme, or no host,
\* ends at once with the validation error: no summarization, no translation
\* and no push follows the command resolution.
C12_InvalidUrlContactsNothing ==
    (/\ env.caller = "handle_push_url_summary"
     /\ (env.url.scheme \notin {"http", "https"} \/ ~env.url.hasHost))
        => /\ tpc = "done"
           /\ taskResult = Err("ValidationError", "Invalid URL provided")
           /\ NoCallAfterResolution

C12_Witness_HostlessUrlRejected ==
    /\ env.caller = "handle_push_url_summary"
    /\ env.url = UrlParse("http://")
    /\ tpc = "done"
    /\ taskResult = Err("ValidationError", "Invalid URL provided")
    /\ Len(calls) = 2

\* C13: is_valid_url accepts exactly the texts that parse as a URL with scheme
\* http or https and a host: of the texts tried, "https://example.com/path"
\* and "http://example.com" only; and push_url_summary goes on to the
\* summarizer exactly for an accepted url.
C13_IsValidUrlExactly ==
    /\ \A t \in UrlTexts :
          IsValidUrl(UrlParse(t)) <=> t \in {"https://example.com/path", "http://example.com"}
    /\ env.caller = "handle_push_url_summary" =>
          ((taskResult # Err("ValidationError", "Invalid URL provided"))
              <=> (env.url.parses /\ env.url.scheme \in {"http", "https"} /\ env.url.hasHost))

C13_Witness_FtpRejected ==
    /\ env.caller = "handle_push_url_summary"
    /\ env.url = UrlParse("ftp://example.com")
    /\ tpc = "done"
    /\ taskResult = Err("ValidationError", "Invalid URL provided")
    /\ logs[Len(logs)] = Log("error", "Failed to push URL summary")

\* The three actions of the command catalogue.
CatalogueNames == {"reply_latest_story", "push_summary", "push_url_summary"}

\* C14 (as claimed): when the AI names a tool outside the catalogue, the task
\* still pushes a message to the event's user before it ends.
C14_UnknownToolStillPushes ==
    (/\ tpc = "done"
     /\ env.function_call.name # Null
     /\ env.function_call.name \notin CatalogueNames
     /\ env.user_id # Null)
        => \E i \in 1..Len(calls) :
              calls[i].api = "push_message" /\ calls[i].to = env.user_id

\* run_conversation has returned Ok and the task has dispatched its result.
Resolved == \E j \in 1..Len(logs) : logs[j] = Log("info", "Function call")

\* The AI's answer lacks what its command needs: arguments that are not JSON
\* or lack the member the tool requires, or a plain reply without text.
ShapeMismatch(fc) ==
    \/ fc.name = "push_summary" /\ (~fc.arguments.json \/ ~fc.arguments.hasIndexes)
    \/ fc.name = "push_url_summary" /\ (~fc.arguments.json \/ ~fc.arguments.hasUrl)
    \/ fc.name = Null /\ fc.message = Null

\* C15 (as claimed): on such an answer the task pushes the best available
\* text to the event's user, "no message available" when there is none.
C15_ShapeMismatchPushesFallback ==
    (tpc = "done" /\ Resolved /\ env.user_id # Null /\ ShapeMismatch(env.function_call))
        => \E i \in 1..Len(calls) :
              /\ calls[i].api = "push_message"
              /\ calls[i].to = env.user_id
              /\ calls[i].text =
                    << CreateTextMessage(IF env.function_call.message # Null
                                         THEN env.function_call.message
                                         ELSE "no message available") >>

\* The AI service could not be reached, or answered with a non-2xx status.
TransportFailures == {"network_error", "http_error"}

\* C16 (as claimed): command resolution ends the task with an error only on a
\* transport failure; every 2xx answer of the AI service yields a command.
C16_ErrorOnlyOnTransportFailure ==
    (env.chatgpt_response # Null /\ env.chatgpt_response \notin TransportFailures)
        => /\ Resolved
           /\ \A j \in 1..Len(logs) : logs[j] # Log("error", "ChatGPT error")

DeliveryApis == {"reply_message", "push_message", "broadcast_message"}

\* The positions of the task's delivery calls.
Deliveries == {i \in 1..Len(calls) : calls[i].api \in DeliveryApis}

\* C17: a webhook's task makes at most one delivery call and never a
\* broadcast; the call is a reply to the event's reply token when the command
\* is reply_latest_story and a push to the event's user otherwise, and each
\* command's other calls are those of its own action only.
C17_OneActionOneTarget ==
    /\ Cardinality(Deliveries) <= 1
    /\ \A i \in Deliveries :
          IF env.function_call.name = "reply_latest_story"
          THEN /\ calls[i].api = "reply_message"
               /\ calls[i].to = req.doc.events[1].replyToken /\ calls[i].to # Null
          ELSE /\ calls[i].api = "push_message"
               /\ calls[i].to = req.doc.events[1].userId /\ calls[i].to # Null
    /\ \A i \in 1..Len(calls) :
          \/ calls[i].api \in {"get_language_code", "run_conversation"} \cup DeliveryApis
          \/ calls[i].api = "fetch_feed"
                /\ env.function_call.name \in {"reply_latest_story", "push_summary"}
          \/ calls[i].api = "get_chatgpt_summary" /\ env.function_call.name = "push_summary"
          \/ calls[i].api = "summarize_url" /\ env.function_call.name = "push_url_summary"
          \/ calls[i].api = "translate"
                /\ env.function_call.name \in {"push_summary", "push_url_summary"}

C17_Witness_ReplyOnly ==
    /\ tpc = "done" /\ taskResult.ok
    /\ env.function_call.name = "reply_latest_story"
    /\ env.user_id # Null
    /\ Cardinality(Deliveries) = 1
    /\ calls[Len(calls)].api = "reply_message" /\ calls[Len(calls)].to = "R1"

\* C18: what handle_push_messages pushes is one message of type text whose
\* text is the AI's message text as run_conversation returned it, addressed
\* to the user id of the event.
C18_PlainMessageVerbatim ==
    \A i \in 1..Len(calls) :
        (calls[i].api = "push_message" /\ env.caller = "handle_push_messages")
            => /\ env.function_call.message # Null
               /\ calls[i].text =
                     << [message_type |-> "text", text |-> env.function_call.message,
                         alt_text |-> Null, contents |-> Null] >>
               /\ calls[i].to = req.doc.events[1].userId
               /\ calls[i].to # Null

C18_Witness_HelloPushed ==
    /\ tpc = "done" /\ taskResult.ok
    /\ env.function_call = FunctionCall(Null, NoArgs, "hello")
    /\ Len(calls) = 3
    /\ calls[3].api = "push_message" /\ calls[3].to = "U1"
    /\ Len(calls[3].text) = 1 /\ calls[3].text[1].text = "hello"

\* The first event is not a message event, or has no message, no text or an
\* empty text.
NothingToProcess(doc) ==
    /\ Len(doc.events) >= 1
    /\ \/ doc.events[1].type # "message"
       \/ doc.events[1].message = "absent"
       \/ doc.events[1].text = Null
       \/ doc.events[1].text = ""

\* C19: for such an event the task ends right after reading the body: no
\* language detection, no command resolution, no delivery, no call at all.
C19_NothingToProcessNoCalls ==
    NothingToProcess(req.doc) => (calls = <<>> /\ tpc \in {"none", "parse", "done"})

C19_Witness_EmptyTextEndsQuietly ==
    /\ Authentic
    /\ req.doc.events # <<>> /\ req.doc.events[1].type = "message"
    /\ req.doc.events[1].message = "ok" /\ req.doc.events[1].text = ""
    /\ tpc = "done" /\ calls = <<>>
    /\ logs = <<Log("info", "Received message without text content")>>

\* The event lacks the field the resolved command delivers to: the reply
\* token for reply_latest_story, the user id for every other command.
MissingContext ==
    /\ Resolved
    /\ \/ /\ env.function_call.name = "reply_latest_story"
          /\ req.doc.events[1].replyToken = Null
       \/ /\ env.function_call.name # "reply_latest_story"
          /\ req.doc.events[1].userId = Null

\* C20: then the task ends at the dispatch: no story fetch, no summarization,
\* no translation and no delivery call is made.
C20_MissingContextEndsPipeline ==
    MissingContext => (tpc = "done" /\ NoCallAfterResolution)

C20_Witness_ReplyWithoutToken ==
    /\ MissingContext
    /\ env.function_call.name = "reply_latest_story"
    /\ req.doc.events[1].userId = "U1"
    /\ tpc = "done" /\ Len(calls) = 2 /\ taskResult = NoResult

\* C21: when the command-resolution call fails with a transport error (the
\* AI service unreachable, or a non-2xx status) the task ends there: the call
\* is its last, the error is logged, and no story fetch, summarization,
\* translation or delivery call is made for the request.
C21_TransportFailureEndsPipeline ==
    env.chatgpt_response \in TransportFailures
        => /\ tpc = "done"
           /\ calls[Len(calls)].api = "run_conversation"
           /\ NoCallAfterResolution
           /\ logs[Len(logs)] = Log("error", "ChatGPT error")

C21_Witness_NetworkErrorAtResolution ==
    /\ env.chatgpt_response = "network_error"
    /\ tpc = "done"
    /\ Len(calls) = 2 /\ calls[2].api = "run_conversation"
    /\ env.user_id = "U1" /\ env.reply_token = "R1"

\* The task's delivery call (reply or push) has returned an error.
DeliveryFailed ==
    ~taskResult.ok /\ taskResult.val \in {"LINE API error", "LINE reply error"}

\* C22: a failed delivery call ends the task: the failed call is the task's
\* only delivery call and its last call, the failure is logged by the
\* command's wrapper, and the webhook caller's response, once sent, is the 200
\* of a verified request.
C22_FailedDeliveryEndsPipeline ==
    DeliveryFailed
        => /\ tpc = "done"
           /\ Cardinality(Deliveries) = 1
           /\ calls[Len(calls)].api \in DeliveryApis
           /\ <<logs[Len(logs)]>> = FailureLog(env.caller)
           /\ hpc = "done" => response = [status |-> 200, success |-> TRUE, error |-> Null]

C22_Witness_PushFailedResponseOk ==
    /\ DeliveryFailed
    /\ env.caller = "handle_push_messages"
    /\ taskResult = Err("ExternalServiceError", "LINE API error")
    /\ Len(calls) = 3 /\ calls[3].api = "push_message"
    /\ hpc = "done" /\ response.status = 200

\* C23 (as claimed): a signature that is not valid base64 is rejected with an
\* error value different from the one a decodable signature with the wrong
\* bytes is rejected with.
C23_MalformedDistinctFromMismatch ==
    (/\ sigCase.kind \in {"body_changed", "signature_changed"}
     /\ B64Decode(sigCase.vsig).ok
     /\ ~sigCase.result.ok)
        => LET malformed == ValidateSignature(sigCase.secret, Undecodable(sigCase.vsig),
                                              sigCase.vbody)
           IN  ~malformed.ok /\ malformed # sigCase.result

\* C24: no log record written while a webhook request is handled, by the
\* handler, by the task, or inside the calls they make, holds the channel
\* secret, the channel access token or an API key.
C24_NoSecretInLogs ==
    \A i \in 1..Len(logs) : logs[i].shows \cap SecretValues = {}

C24_Witness_TokenFaultAndFailedPush ==
    /\ "channel_token" \in env.config_faults
    /\ tpc = "done" /\ DeliveryFailed
    /\ Len(logs) >= 2
    /\ logs[Len(logs) - 1] = Log("error", "Failed to create Authorization header")
    /\ logs[Len(logs)] = Log("error", "Failed to push message")
    /\ logs[Len(logs)].shows = ApiErrorShows

HandlerPositions == {"recv", "spawned", "done"}

TaskPositions ==
    {"none", "parse", "lang", "resolve", "rls_fetch", "rls_reply", "pss_fetch",
     "pss_summarize", "pss_translate", "pss_push", "pus_summarize", "pus_translate",
     "pus_push", "ppm_push", "done"}

\* C26: whatever the body, the signature, the AI's answers and the outcomes
\* of the outbound calls, neither the handler nor the task panics: each is
\* at a position of its code from which it goes on or has returned, the
\* handler's return carries one of its two HTTP responses, and a task that
\* has not returned always has a next step.
C26_NoAbnormalTermination ==
    /\ hpc \in HandlerPositions
    /\ tpc \in TaskPositions
    /\ hpc = "done" => response \in { ResponseFor(Ok("unit")),
                                      ResponseFor(Err("String", "Invalid signature")) }
    /\ hpc = "recv" => ENABLED HandleWebhook
    /\ hpc = "spawned" => ENABLED HandlerRespond
    /\ tpc \notin {"none", "done"} => ENABLED TaskNext

C26_Witness_UnparsableBodyReturnsNormally ==
    /\ Authentic
    /\ ~ParseWebhookRequest(req.doc).ok
    /\ hpc = "done" /\ response.status = 200
    /\ tpc = "done" /\ calls = <<>>
    /\ logs = <<Log("error", "Failed to parse webhook body")>>

\* C27 (as claimed): every outbound call of the task (language detection,
\* command resolution, story fetch, summarization, translation, reply, push)
\* is made under the retrying executor, so that a call reported as failed
\* with a network error has been retried first.
C27_EveryCallThroughRetry ==
    \A i \in 1..Len(calls) : ViaRetry(calls[i].api)

\* C28 (as claimed): every delivery call is sent with an idempotency token
\* of its own, the X-Line-Retry-Key header.
C28_EveryDeliveryCarriesToken ==
    \A i \in Deliveries : "X-Line-Retry-Key" \in CreateLineHeaders(env.config_faults)

\* The stage an outbound call belongs to: 3 resolving (the two AI calls that
\* lead to the command), 4 executing the command, 5 delivering.
CallStage(api) ==
    CASE api \in {"get_language_code", "run_conversation"} -> 3
      [] api \in {"fetch_feed", "get_chatgpt_summary", "summarize_url", "translate"} -> 4
      [] OTHER -> 5

\* The stage the pipeline is in: 0 received, 1 verified, 2 parsed and
\* resolving, 3 resolved and executing, 4 executed and delivering, 5 ended.
PipelineStage ==
    CASE tpc = "none" -> IF hpc = "done" THEN 5 ELSE 0
      [] tpc = "parse" -> 1
      [] tpc \in {"lang", "resolve"} -> 2
      [] tpc \in {"rls_fetch", "pss_fetch", "pss_summarize", "pss_translate",
                  "pus_summarize", "pus_translate"} -> 3
      [] tpc \in {"rls_reply", "pss_push", "pus_push", "ppm_push"} -> 4
      [] OTHER -> 5

\* The calls made so far are in stage order, each stage's calls made only
\* once the stage before has succeeded.
StagesInOrder ==
    /\ calls # <<>> => (Authentic /\ ParseWebhookRequest(req.doc).ok /\ tpc \notin {"none", "parse"})
    /\ \A i, j \in 1..Len(calls) : i < j => CallStage(calls[i].api) <= CallStage(calls[j].api)
    /\ \A i \in 1..Len(calls) :
          CallStage(calls[i].api) >= 4 =>
              /\ Resolved
              /\ \E k \in 1..(i - 1) : calls[k].api = "run_conversation"
    /\ \A i \in Deliveries : i = Len(calls) /\ PipelineStage = 5
    /\ tpc # "none" => Authentic
    /\ PipelineStage \in {3, 4} => Resolved

\* C29: the stages of one pipeline occur only in the order verify, parse,
\* resolve, execute, deliver: no resolution call before the signature has
\* verified and the body has parsed, no story fetch, summarization or
\* translation before the resolver has answered, no delivery before the
\* command's other calls, and no step takes the pipeline back to an earlier
\* stage.
C29_StagesOnlyForward ==
    []StagesInOrder /\ [][PipelineStage' >= PipelineStage]_vars

C29_Witness_AllStagesPassed ==
    /\ tpc = "done" /\ taskResult.ok
    /\ env.function_call.name = "push_summary"
    /\ Len(calls) = 6
    /\ <<calls[1].api, calls[2].api, calls[3].api, calls[4].api, calls[5].api, calls[6].api>>
          = <<"get_language_code", "run_conversation", "fetch_feed",
              "get_chatgpt_summary", "translate", "push_message">>

\* C30: when every outbound call returns, a spawned task reaches its end,
\* by delivering or by an early return, and it makes at most six outbound
\* calls on the way (language detection, command resolution, story fetch,
\* summarization, translation, delivery).
C30_TaskTerminates ==
    /\ [](Len(calls) <= 6)
    /\ (tpc # "none") ~> (tpc = "done")

C30_Witness_EndedAfterSixCalls ==
    /\ tpc = "done"
    /\ Len(calls) = 6
    /\ calls[6].api = "push_message"
    /\ taskResult = Err("NetworkError", "LINE API error")

\* C31: when the caller goes away after the task has been spawned, the step
\* that drops the response leaves the task where it is, and the task still
\* runs to its end.
C31_DroppedResponseDoesNotCancel ==
    /\ [][(hpc # "dropped" /\ hpc' = "dropped")
              => UNCHANGED <<tpc, env, calls, logs, taskResult>>]_vars
    /\ (hpc = "dropped" /\ tpc # "none") ~> (hpc = "dropped" /\ tpc = "done")

C31_Witness_DeliveredAfterDrop ==
    /\ hpc = "dropped"
    /\ tpc = "done" /\ taskResult.ok
    /\ Len(calls) = 3 /\ calls[3].api = "push_message"

\* What task `id` in context `ctx` has called and delivered concerns its own
\* request only: its own text goes to the AI, its own reply token and user id
\* receive the deliveries, and it reads the one configuration snapshot.
OwnRequestOnly(id, ctx) ==
    LET ev == TwoRequest(id).doc.events[1]
    IN  /\ ctx.req = TwoRequest(id)
        /\ ctx.env.config_faults = parked.config
        /\ ctx.env.reply_token \in {Null, ev.replyToken}
        /\ ctx.env.user_id \in {Null, ev.userId}
        /\ \A i \in 1..Len(ctx.calls) :
              LET c == ctx.calls[i]
              IN  /\ c.api \in {"get_language_code", "run_conversation"} => c.text = ev.text
                  /\ c.api = "push_message" => c.to = ev.userId
                  /\ c.api = "reply_message" => c.to = ev.replyToken

\* C32: two pipeline instances share no mutable state.  A step of one task
\* leaves everything the other task owns as it was, a task resumes with
\* exactly the locals, calls and logs it was suspended with (so what it calls
\* and delivers does not depend on the interleaving), every call and delivery
\* of a task carries its own request's text and recipient, and the
\* configuration snapshot and the HTTP client are never written again.
C32_InstancesShareNoMutableState ==
    /\ [][/\ parked'.config = parked.config
          /\ parked'.client = parked.client
          /\ parked'.id = parked.id => parked'.ctx = parked.ctx
          /\ parked'.id # parked.id => (Current' = parked.ctx /\ parked'.ctx = Current)]_vars
    /\ [](parked.id \in {1, 2} =>
             OwnRequestOnly(3 - parked.id, Current) /\ OwnRequestOnly(parked.id, parked.ctx))

\* Witness: task 2 has delivered to its own user while task 1 is suspended
\* half-way, after its AI call and before its delivery.
C32_Witness_DeliveredWhileOtherSuspended ==
    /\ parked.id = 1
    /\ parked.ctx.tpc \notin {"parse", "done"} /\ Len(parked.ctx.calls) = 2
    /\ tpc = "done" /\ taskResult.ok
    /\ Len(calls) = 3 /\ calls[3].api = "push_message" /\ calls[3].to = "U2"

\* The second request has nothing left to do: its handler has answered and
\* its task, if one was spawned, has ended.
LaterFinished == hpc = "done" /\ tpc \in {"none", "done"}

\* C33: no head-of-line blocking.  While an earlier task stays suspended on
\* an AI or summarization call that never returns, a later request can always
\* take its next step, a verified one is acknowledged with 200, and its task
\* runs to its end; the suspended task is still suspended then.
C33_NoHeadOfLineBlocking ==
    /\ []((parked.id = 1 /\ ~LaterFinished) => ENABLED LaterStep)
    /\ [][parked.id = 1 => parked' = parked]_vars
    /\ (parked.id = 1 /\ Authentic) ~> (response.status = 200 /\ tpc = "done")

\* Witness: the first task is still waiting for the AI's answer while the
\* second request has been acknowledged and its message pushed to its user.
C33_Witness_DeliveredPastStalledTask ==
    /\ parked.id = 1 /\ parked.ctx.tpc = "resolve"
    /\ response.status = 200
    /\ tpc = "done" /\ taskResult.ok
    /\ Len(calls) = 3 /\ calls[3].api = "push_message" /\ calls[3].to = "U2"

\* C34 (as claimed): a task that ends without a delivery has logged its exit:
\* its last record is not the routine "Function call" record that every
\* resolved task, delivering or not, writes before the dispatch.
C34_EveryEarlyExitLogged ==
    (tpc = "done" /\ Deliveries = {})
        => (logs # <<>> /\ logs[Len(logs)] # Log("info", "Function call"))

SummaryApis == {"get_chatgpt_summary", "summarize_url"}

C36_RepliesFirstStoryOfList ==
    \A i \in 1..Len(calls) :
        calls[i].api = "reply_message"
            => calls[i].text = <<CreateTextMessage(LatestStoryFormat("story"))>>

\* C37 (as claimed): a successful get_latest_stories returns a non-empty list
\* whose stories all have a non-empty title and a non-empty link, and a feed
\* that yields no story is an error.
C37_StoriesNonEmptyWithTitleAndLink ==
    feedCase.done =>
        IF feedCase.result.ok
        THEN /\ Len(feedCase.result.stories) > 0
             /\ \A j \in 1..Len(feedCase.result.stories) :
                   /\ feedCase.result.stories[j].story # ""
                   /\ feedCase.result.stories[j].storylink # ""
        ELSE feedCase.result.stories = <<>>

C39_NoIndexInRangeIsValidationError ==
    (/\ env.story_count > 0
     /\ env.indexes # <<>>
     /\ \A j \in 1..Len(env.indexes) : env.indexes[j] \notin 1..env.story_count)
        => /\ tpc = "done"
           /\ taskResult = Err("ValidationError", "No valid stories selected")
           /\ Len(calls) = 1 /\ calls[1].api = "fetch_feed"

\* Witness: indexes 0 and 3 against a feed of two stories.
C39_Witness_ZeroAndTooLarge ==
    /\ env.story_count = 2
    /\ env.indexes = <<0, 3>>
    /\ tpc = "done"
    /\ taskResult = Err("ValidationError", "No valid stories selected")
    /\ Len(calls) = 1

====
